---- MODULE Spec2Model ----
(***************************************************************************)
(* Question cache / coordination layer of freeappractice.                  *)
(*                                                                         *)
(* services/questionCache (kept in src/services/s3Service.js, lines        *)
(* 80-265) serves a cached AP question from the MongoDB collection         *)
(* "Question" and regenerates it in the background; aiService generates a  *)
(* question and auto-saves it to S3 through questionStorageService.        *)
(*                                                                         *)
(* Node runs one JavaScript thread: every action below is one macrotask    *)
(* (the completion of an I/O call, with the continuation that runs up to   *)
(* the next awaited I/O call).  The hand-over of a computed result to the  *)
(* HTTP response (res.json) is kept as its own step, Respond, which runs   *)
(* in the microtasks of the same macrotask: no I/O completion and no       *)
(* setImmediate callback can run before it (JsIdle, ImmediateMayRun).      *)
(*                                                                         *)
(* MongoDB: findOne without a sort scans the collection in insertion       *)
(* order and returns the first match.  findOneAndUpdate with upsert:true   *)
(* updates the first match atomically; when nothing matches it inserts,    *)
(* and, the Question schema declaring no unique index on (apClass, unit),  *)
(* two upserts that both matched nothing both insert.                      *)
(*                                                                         *)
(* Spec is the server; FairSpec adds what its scheduling guarantees.       *)
(* SpecClient is the page public/js/question-app.js, which asks the server *)
(* for questions and prefetches the next one; the variables of the other   *)
(* side stay as Init leaves them.                                          *)
(*                                                                         *)
(* The other parts of the server have specifications of their own over     *)
(* variables of their own: SpecLedger, SpecLedgerSeq, SpecBookmark and     *)
(* SpecAuth (the routes of routes/api/auth.js and question-by-id behind    *)
(* verifyToken), SpecAttempt (the cache together with record-attempt),     *)
(* SpecStorage (getQuestionsFromS3), SpecProfile (selectModelForClass),    *)
(* SpecRate (checkOpenAIRateLimit), SpecStats (the server with a           *)
(* getCacheStats call), SpecVerify (register, verify-email and login),     *)
(* SpecAuthFetch (authFetch of the page) and SpecReports (the bug-report   *)
(* route and its JSON file).                                               *)
(***************************************************************************)
EXTENDS Integers, FiniteSets, Sequences, TLC

\* ---------------------------------------------------------------- bounds
NTasks == 2          \* request / refresh slots that can be in flight at once
MaxGen == 2          \* generator answers produced in one run
MaxScheduled == 1    \* setImmediate callbacks queued per key
MaxTimers == 1       \* browser: prefetch timers pending at once
MaxRequests == 1     \* browser: question requests awaited at once
NUsers == 2          \* accounts: users that can register
NCalls == 2          \* accounts: authenticated requests in flight at once
MaxAttempts == 2     \* accounts: attempt records stored, all users together
MaxMarks == 2        \* accounts: bookmarks stored, all users together
MaxIds == 2          \* storage: ids in one getQuestionsFromS3 call
MaxPicks == 2        \* generator: selectModelForClass calls looked at together
MaxResponses == 2    \* browser: prefetch responses received in one run
NMembers == 2        \* verification: accounts that can register
NVerifyCalls == 2    \* verification: verify-email requests in flight at once
MaxAuthCalls == 2    \* authFetch: calls made in one run
MaxReports == 3      \* bug reports: reports submitted in one run
NSubmissions == 2    \* bug reports: submissions in flight at once

Tasks == 1..NTasks
Classes == {"AP Biology"}
Units == {"Unit 1"}
Keys == [apClass : Classes, unit : Units]

\* ------------------------------------------------------------ identifiers
\* Mongo ObjectIds and S3 uuids are strings of different shapes; they are
\* kept apart by a tag.
NoId == <<"none", 0>>
Oid(n) == <<"oid", n>>
Uuid(n) == <<"uuid", n>>

\* The question object the generator returns (message.parsed); generation
\* number q stands for its text, the options and answer letter are folded
\* into correctAnswer.
MkQuestion(q) == [question |-> q, correctAnswer |-> q, explanation |-> q]
NoQuestion == MkQuestion(0)

NoRes == [status |-> "none", cached |-> "undef", questionId |-> NoId,
          answer |-> NoQuestion, error |-> "none"]
OkRes(c, id, a) == [status |-> "ok", cached |-> c, questionId |-> id,
                    answer |-> a, error |-> "none"]
ErrRes(e) == [status |-> "error", cached |-> "undef", questionId |-> NoId,
              answer |-> NoQuestion, error |-> e]

\* What a caller keeps of an answer: the question id and the question.
NoServed == [questionId |-> NoId, answer |-> NoQuestion]

\* Per key: nothing to watch, the cache was cleared and no fetch of the
\* key has started since, or slot t holds the first fetch started since.
\* this.lastCacheKey before the first request (undefined).
NoCacheKey == [cls |-> "", unit |-> "undefined"]

NotCleared == <<"no", 0>>
JustCleared == <<"cleared", 0>>
FirstFetch(t) == <<"fetch", t>>

VARIABLES
    docs,        \* the Question collection: set of documents
    blob,        \* the S3 bucket: set of [id, body] objects
    nextOid,     \* next ObjectId the database hands out
    nextUuid,    \* next uuid of generateQuestionId
    nextGen,     \* next answer of the generator
    pc,          \* per slot: idle, find, gen, save, upsert, insert, respond
    kind,        \* per slot: none, fetch, force, prime, refresh
    key,         \* per slot: the (className, unit) of the call
    gen,         \* per slot: questionData (generation number, 0 = none yet)
    s3id,        \* per slot: result.questionId of generateAPQuestion
    res,         \* per slot: the result / HTTP response (refresh: logged outcome)
    scheduled,   \* per key: setImmediate callbacks not yet run
    saved,       \* per slot: outcome of the auto-save (no, ok, failed)
    lastHit,     \* history: per key, last cache hit handed back since the last cache write
    lastCold,    \* history: per key, id of the last cold-miss response not yet followed by a fetch
    lastWrite,   \* history: per key, question of the last cache write
    coldServed,  \* history: per key, a fetch answered from the synchronous path since the last clear
    lastServed,  \* history: per key, id and question of the last fetch / primeCache answer
    cleared,     \* history: per key, the cache was cleared and the first fetch started since has not looked the key up
    classSelect, \* browser: value of the class select ("" = none chosen)
    unitSelect,  \* browser: value of the unit select ("" = All Units)
    currentUnits,\* browser: APStudyApp.currentUnits
    cache,       \* browser: keys of QuestionManager.cache (prefetched questions)
    prefetch,    \* browser: the prefetch request awaited under prefetchController
    timers,      \* browser: pending setTimeout(prefetchNext) callbacks
    requests,    \* browser: fetchQuestion calls awaited by handleQuestionRequest
    shown,       \* browser: where the question on screen came from (nothing, fetched, prefetched)
    hasShownFirst, \* browser: QuestionManager.hasShownFirst
    lastCacheKey,  \* browser: APStudyApp.lastCacheKey
    cacheKeys,   \* server, as the browser drives it: (apClass, unit) of the cache documents
    changeAborted, \* history: a selection change has aborted a prefetch in flight
    cacheData,   \* browser: QuestionManager.cache, each key with the response object it holds
    nextResponse,\* browser: identity of the next prefetch response object
    shownFor,    \* history: cache keys a question was shown for since the selects last changed
    displayed,   \* history: per prefetch response, how often processQuestionData got it (2 = more than once)
    users,       \* accounts: the User collection, by _id
    tokens,      \* accounts: the users a JWT has been signed for
    calls,       \* accounts: per slot, the request behind verifyToken in flight
    getMany,     \* storage: the getQuestionsFromS3 call in progress
    picks,       \* generator: the selectModelForClass calls made, with their results
    openaiRateLimits, \* rate limit: the Map of IP -> { count, resetTime }
    now,         \* rate limit: Date.now(), in ms since the server started
    allowedAt,   \* history: per IP, the times of the requests let through in the last minute
    lastCheck,   \* rate limit: what checkOpenAIRateLimit returned last
    stats,       \* cache statistics: the getCacheStats call in progress
    members,     \* verification: the User collection with its verification fields
    clock,       \* verification: Date.now(), in ms since the first registration
    vcalls,      \* verification: per slot, the verify-email request in flight
    lcall,       \* verification: the login request in flight
    verifiedWith,\* history: per member, the verify-email requests answered 200 for its token (2 = more)
    authCall,    \* authFetch: the call in progress (pc, attempt, what it ended with)
    authToken,   \* authFetch: localStorage holds auth_token
    pathname,    \* authFetch: window.location.pathname
    outcomes,    \* history: what each fetch() of the call in progress ended with
    ended,       \* history: number of authFetch calls that have ended
    reportsFile, \* bug reports: data/bug-reports.json (exists, the parsed array)
    submissions, \* bug reports: per slot, the POST /api/bug-report in flight
    nextReport,  \* bug reports: number of the next report submitted
    acknowledged \* history: the reports answered 201

svars == <<docs, blob, nextOid, nextUuid, nextGen, pc, kind, key, gen, s3id,
           res, scheduled, saved, lastHit, lastCold, lastWrite,
           coldServed, lastServed, cleared>>

cvars == <<classSelect, unitSelect, currentUnits, cache, prefetch, timers,
           requests, shown, hasShownFirst, lastCacheKey, cacheKeys,
           changeAborted, cacheData, nextResponse, shownFor, displayed>>

avars == <<users, tokens, calls>>

gvars == <<getMany>>

pvars == <<picks>>

rvars == <<openaiRateLimits, now, allowedAt, lastCheck>>

tvars == <<stats>>

\* The parts added last.
evars == <<members, clock, vcalls, lcall, verifiedWith>>

fvars == <<authCall, authToken, pathname, outcomes, ended>>

bvars == <<reportsFile, submissions, nextReport, acknowledged>>

yvars == <<tvars, evars, fvars, bvars>>

xvars == <<avars, gvars, pvars, rvars, yvars>>

\* What the actions of one part leave alone.
exceptAccounts == <<svars, cvars, gvars, pvars, rvars, yvars>>
exceptStorage == <<svars, cvars, avars, pvars, rvars, yvars>>
exceptProfile == <<svars, cvars, avars, gvars, rvars, yvars>>
exceptRate == <<svars, cvars, avars, gvars, pvars, yvars>>
exceptStats == <<svars, cvars, avars, gvars, pvars, rvars, evars, fvars, bvars>>
exceptVerify == <<svars, cvars, avars, gvars, pvars, rvars, tvars, fvars, bvars>>
exceptAuthFetch == <<svars, cvars, avars, gvars, pvars, rvars, tvars, evars, bvars>>
exceptReports == <<svars, cvars, avars, gvars, pvars, rvars, tvars, evars, fvars>>

vars == <<svars, cvars, xvars>>

AnyKey == CHOOSE k \in Keys : TRUE

Init ==
    /\ docs = {}
    /\ blob = {}
    /\ nextOid = 1
    /\ nextUuid = 1
    /\ nextGen = 1
    /\ pc = [t \in Tasks |-> "idle"]
    /\ kind = [t \in Tasks |-> "none"]
    /\ key = [t \in Tasks |-> AnyKey]
    /\ gen = [t \in Tasks |-> 0]
    /\ s3id = [t \in Tasks |-> NoId]
    /\ res = [t \in Tasks |-> NoRes]
    /\ scheduled = [k \in Keys |-> 0]
    /\ saved = [t \in Tasks |-> "no"]
    /\ lastHit = [k \in Keys |-> NoRes]
    /\ lastCold = [k \in Keys |-> NoId]
    /\ lastWrite = [k \in Keys |-> 0]
    /\ coldServed = [k \in Keys |-> FALSE]
    /\ lastServed = [k \in Keys |-> NoServed]
    /\ cleared = [k \in Keys |-> NotCleared]
    /\ classSelect = ""
    /\ unitSelect = ""
    /\ currentUnits = <<>>
    /\ cache = {}
    /\ prefetch = {}
    /\ timers = {}
    /\ requests = {}
    /\ shown = "nothing"
    /\ hasShownFirst = FALSE
    /\ lastCacheKey = NoCacheKey
    /\ cacheKeys = {}
    /\ changeAborted = FALSE
    /\ cacheData = {}
    /\ nextResponse = 1
    /\ shownFor = {}
    /\ displayed = [n \in 1..MaxResponses |-> 0]
    /\ users = [u \in 1..NUsers |-> [exists |-> FALSE, verified |-> FALSE,
                                     progress |-> <<>>,
                                     questionHistory |-> <<>>,
                                     bookmarkedQuestions |-> <<>>]]
    /\ tokens = {}
    /\ picks = <<>>
    /\ openaiRateLimits = [ip \in {"203.0.113.7"} |->
                              [present |-> FALSE, count |-> 0, resetTime |-> 0]]
    /\ now = 0
    /\ reportsFile = [exists |-> FALSE, reports |-> <<>>]
    /\ submissions = [s \in 1..NSubmissions |->
                         [pc |-> "idle", report |-> 0, records |-> <<>>,
                          status |-> 0]]
    /\ nextReport = 1
    /\ acknowledged = {}
    /\ authCall = [pc |-> "idle", url |-> "", attempt |-> 0,
                   authorization |-> FALSE, result |-> <<"none", 0>>]
    /\ authToken = TRUE
    /\ pathname = "/index.html"
    /\ outcomes = <<>>
    /\ ended = 0
    /\ members = [u \in 1..NMembers |->
                     [exists |-> FALSE, verified |-> FALSE,
                      emailToken |-> <<"null", 0>>, emailTokenExpires |-> 0,
                      password |-> <<"bcrypt", 0>>]]
    /\ clock = 0
    /\ vcalls = [s \in 1..NVerifyCalls |->
                    [pc |-> "idle", token |-> <<"null", 0>>, user |-> 0,
                     foundAt |-> 0, status |-> 0]]
    /\ lcall = [pc |-> "idle", email |-> 0, password |-> 0,
                user |-> [exists |-> FALSE, verified |-> FALSE,
                          emailToken |-> <<"null", 0>>, emailTokenExpires |-> 0,
                          password |-> <<"bcrypt", 0>>],
                status |-> 0]
    /\ verifiedWith = [u \in 1..NMembers |-> 0]
    /\ stats = [pc |-> "idle", total |-> 0, byClass |-> <<>>]
    /\ allowedAt = [ip \in {"203.0.113.7"} |-> <<>>]
    /\ lastCheck = [allowed |-> TRUE, remaining |-> 0, resetIn |-> 0]
    /\ getMany = [pc |-> "idle", ids |-> <<>>, objects |-> {}, results |-> <<>>,
                  returned |-> <<>>]
    /\ calls = [s \in 1..NCalls |->
                  [pc |-> "idle", route |-> "none", token |-> <<"none", 0>>,
                   userId |-> 0,
                   body |-> [questionId |-> NoId, apClass |-> "", unit |-> "",
                            selectedAnswer |-> "", wasCorrect |-> "undefined"],
                   handler |-> FALSE, op |-> "none", idx |-> 0, correct |-> 0,
                   marks |-> <<>>, stale |-> FALSE,
                   reply |-> [status |-> 0, mastery |-> 0, totalAttempts |-> 0,
                             bookmarked |-> FALSE]]]

\* ------------------------------------------------------------- event loop
\* No continuation is waiting in the microtask queue.
JsIdle == \A t \in Tasks : pc[t] # "respond"

\* A setImmediate callback runs in the check phase, after the current
\* macrotask and its microtasks have finished.
ImmediateMayRunEarly == TRUE
ImmediateMayRun == \A t \in Tasks : pc[t] # "respond"

\* Slots are interchangeable: a new call takes the lowest free one.
Free(t) == pc[t] = "idle" /\ \A u \in Tasks : u < t => pc[u] # "idle"

\* ---------------------------------------------------------------- MongoDB
Matching(k) == {d \in docs : d.apClass = k.apClass /\ d.unit = k.unit}

\* Question.findOne({ apClass, unit }): first match in insertion order.
FindOne(k) == CHOOSE d \in Matching(k) : \A e \in Matching(k) : d.id[2] <= e.id[2]

\* The document written by findOneAndUpdate for questionData q.
MkDoc(id, k, q) ==
    [id |-> id, apClass |-> k.apClass, unit |-> k.unit,
     question |-> MkQuestion(q).question,
     correctAnswer |-> MkQuestion(q).correctAnswer,
     explanation |-> MkQuestion(q).explanation]

\* questionData built from a cached document.
HitAnswer(d) == [question |-> d.question, correctAnswer |-> d.correctAnswer,
                 explanation |-> d.explanation]

\* ------------------------------------------------------------------- S3
\* The object saveQuestionToS3 writes: the parsed question with apClass and
\* unit (unit || 'General').
MkBlob(id, k, q) ==
    [id |-> id,
     body |-> [question |-> MkQuestion(q).question,
               correctAnswer |-> MkQuestion(q).correctAnswer,
               explanation |-> MkQuestion(q).explanation,
               apClass |-> k.apClass,
               unit |-> IF k.unit = "" THEN "General" ELSE k.unit]]

BlobAnswer(b) == [question |-> b.body.question,
                  correctAnswer |-> b.body.correctAnswer,
                  explanation |-> b.body.explanation]


\* ------------------------------------------------------ shared handlers
\* The inner try/catch of generateAPQuestion logs a failed auto-save and
\* returns the question without questionId.
SaveErrorRethrown == FALSE
SaveErrorSwallowed == TRUE

\* The step that follows a parsed generator answer: the auto-save to S3.
PcAfterGenSkipSave(t) == IF kind[t] = "force" THEN "save" ELSE "upsert"
PcAfterGen(t) == "save"

\* The catch blocks of generateAndStoreQuestion, getCachedQuestion and
\* refreshQuestionBackground log (and rethrow, or drop) the error; they do
\* not touch the collection.
DocsOnErrorDropEntry(t) ==
    IF kind[t] = "refresh" THEN docs \ Matching(key[t]) ELSE docs
DocsOnErrorPlaceholder(t) ==
    IF kind[t] = "fetch" THEN docs \cup {MkDoc(Oid(0), key[t], 0)} ELSE docs
DocsOnError(t) == docs

\* An error leaves the call: a request answers 500 with it, the .catch of a
\* background refresh logs it (pc "respond" is then the logging handler).
Fail(t, e) ==
    /\ res' = [res EXCEPT ![t] = ErrRes(e)]
    /\ pc' = [pc EXCEPT ![t] = "respond"]
    /\ docs' = DocsOnError(t)

\* generateAndStoreQuestion returns { answer, cached: false, questionId: _id }.
Stored(t, id) ==
    /\ res' = [res EXCEPT ![t] =
                 IF kind[t] = "refresh"
                 THEN OkRes("undef", NoId, NoQuestion)
                 ELSE OkRes("false", id, MkQuestion(gen[t]))]
    /\ pc' = [pc EXCEPT ![t] = "respond"]

\* History kept at a cache write for key k with question q by slot t.
NoteWrite(t, k, q) ==
    /\ lastWrite' = [lastWrite EXCEPT ![k] = q]
    /\ lastHit' = [lastHit EXCEPT ![k] = NoRes]
    /\ lastCold' = IF kind[t] = "refresh" THEN [lastCold EXCEPT ![k] = NoId]
                   ELSE lastCold

\* A call starts in slot t; ensureDbConnection finds the connection open.
Begin(t, kd, k, p) ==
    /\ kind' = [kind EXCEPT ![t] = kd]
    /\ key' = [key EXCEPT ![t] = k]
    /\ pc' = [pc EXCEPT ![t] = p]
    /\ gen' = [gen EXCEPT ![t] = 0]
    /\ s3id' = [s3id EXCEPT ![t] = NoId]
    /\ res' = [res EXCEPT ![t] = NoRes]
    /\ saved' = [saved EXCEPT ![t] = "no"]

\* --------------------------------------------------------------- requests
\* POST /api/question without skipCache: getCachedQuestion issues findOne.
StartFetch(t, k) ==
    /\ Free(t) /\ JsIdle
    /\ Begin(t, "fetch", k, "find")
    /\ cleared' = IF cleared[k] = JustCleared
                  THEN [cleared EXCEPT ![k] = FirstFetch(t)] ELSE cleared
    /\ UNCHANGED <<docs, blob, nextOid, nextUuid, nextGen, scheduled,
                   lastHit, lastCold, lastWrite, coldServed, lastServed>>
    /\ UNCHANGED <<cvars, xvars>>

\* POST /api/question with skipCache: aiService.generateAPQuestion directly,
\* questionCache is not consulted.
ForceThroughCache == "find"
ForceEntryPc == "gen"

StartForce(t, k) ==
    /\ Free(t) /\ JsIdle
    /\ Begin(t, "force", k, ForceEntryPc)
    /\ UNCHANGED <<docs, blob, nextOid, nextUuid, nextGen, scheduled,
                   lastHit, lastCold, lastWrite,
                   coldServed, lastServed, cleared>>
    /\ UNCHANGED <<cvars, xvars>>

\* POST /api/question/cache/generate: generateAndStoreQuestion.
StartPrime(t, k) ==
    /\ Free(t) /\ JsIdle
    /\ Begin(t, "prime", k, "gen")
    /\ UNCHANGED <<docs, blob, nextOid, nextUuid, nextGen, scheduled,
                   lastHit, lastCold, lastWrite,
                   coldServed, lastServed, cleared>>
    /\ UNCHANGED <<cvars, xvars>>

\* Cache hit: the cached fields are returned and a refresh is queued with
\* setImmediate; the collection is left alone.
HitEffectConsume(t, d) ==
    /\ res' = [res EXCEPT ![t] = OkRes("true", d.id, HitAnswer(d))]
    /\ scheduled' = [scheduled EXCEPT ![key[t]] = @ + 1]
    /\ pc' = [pc EXCEPT ![t] = "respond"]
    /\ docs' = docs \ {d}
    /\ lastHit' = [lastHit EXCEPT ![key[t]] = NoRes]
HitEffectSingleFlight(t, d) ==
    /\ res' = [res EXCEPT ![t] = OkRes("true", d.id, HitAnswer(d))]
    /\ scheduled' = IF \E u \in Tasks : /\ kind[u] = "refresh"
                                          /\ key[u] = key[t]
                                          /\ pc[u] # "respond"
                    THEN scheduled
                    ELSE [scheduled EXCEPT ![key[t]] = @ + 1]
    /\ pc' = [pc EXCEPT ![t] = "respond"]
    /\ UNCHANGED <<docs, lastHit>>
HitEffect(t, d) ==
    /\ res' = [res EXCEPT ![t] = OkRes("true", d.id, HitAnswer(d))]
    /\ scheduled' = [scheduled EXCEPT ![key[t]] = @ + 1]
    /\ pc' = [pc EXCEPT ![t] = "respond"]
    /\ UNCHANGED <<docs, lastHit>>

\* findOne of getCachedQuestion has answered.
FetchFind(t) ==
    /\ pc[t] = "find" /\ JsIdle
    /\ IF Matching(key[t]) # {}
       THEN /\ scheduled[key[t]] < MaxScheduled
            /\ HitEffect(t, FindOne(key[t]))
       ELSE /\ pc' = [pc EXCEPT ![t] = "gen"]
            /\ UNCHANGED <<res, scheduled, docs, lastHit>>
    /\ lastCold' = [lastCold EXCEPT ![key[t]] = NoId]
    /\ cleared' = IF cleared[key[t]] = FirstFetch(t)
                  THEN [cleared EXCEPT ![key[t]] = NotCleared] ELSE cleared
    /\ UNCHANGED <<blob, nextOid, nextUuid, nextGen, kind, key, gen, s3id,
                   saved, lastWrite, coldServed, lastServed>>
    /\ UNCHANGED <<cvars, xvars>>

\* The setImmediate callback: refreshQuestionBackground starts
\* generateAndStoreQuestion for the key.
RefreshStart(t, k) ==
    /\ Free(t) /\ ImmediateMayRun
    /\ scheduled[k] > 0
    /\ scheduled' = [scheduled EXCEPT ![k] = @ - 1]
    /\ Begin(t, "refresh", k, "gen")
    /\ UNCHANGED <<docs, blob, nextOid, nextUuid, nextGen,
                   lastHit, lastCold, lastWrite,
                   coldServed, lastServed, cleared>>
    /\ UNCHANGED <<cvars, xvars>>

\* --------------------------------------------------------------- generator
\* client.chat.completions.parse answered with a parsed question.
GenOk(t) ==
    /\ pc[t] = "gen" /\ JsIdle
    /\ nextGen <= MaxGen
    /\ gen' = [gen EXCEPT ![t] = nextGen]
    /\ nextGen' = nextGen + 1
    /\ pc' = [pc EXCEPT ![t] = PcAfterGen(t)]
    /\ UNCHANGED <<docs, blob, nextOid, nextUuid, kind, key, s3id, res,
                   scheduled, saved, lastHit, lastCold, lastWrite,
                   coldServed, lastServed, cleared>>
    /\ UNCHANGED <<cvars, xvars>>

\* The provider failed, refused or returned nothing parsed.
GenFail(t) ==
    /\ pc[t] = "gen" /\ JsIdle
    /\ Fail(t, "GenerationError")
    /\ UNCHANGED <<blob, nextOid, nextUuid, nextGen, kind, key, gen, s3id,
                   scheduled, saved, lastHit, lastCold, lastWrite,
                   coldServed, lastServed, cleared>>
    /\ UNCHANGED <<cvars, xvars>>

\* -------------------------------------------------------------- auto-save
\* What generateAPQuestion does once the auto-save has ended: a forced
\* request gets { answer, questionId } back, the other callers go on to
\* findOneAndUpdate.
AfterSaveRetry(t, id) ==
    IF id = NoId
    THEN /\ pc' = [pc EXCEPT ![t] = "save"]
         /\ UNCHANGED res
    ELSE IF kind[t] = "force"
    THEN /\ res' = [res EXCEPT ![t] = OkRes("undef", id, MkQuestion(gen[t]))]
         /\ pc' = [pc EXCEPT ![t] = "respond"]
    ELSE /\ pc' = [pc EXCEPT ![t] = "upsert"]
         /\ UNCHANGED res
AfterSaveStoresForced(t, id) ==
    /\ pc' = [pc EXCEPT ![t] = "upsert"]
    /\ UNCHANGED res
AfterSave(t, id) ==
    IF kind[t] = "force"
    THEN /\ res' = [res EXCEPT ![t] = OkRes("undef", id, MkQuestion(gen[t]))]
         /\ pc' = [pc EXCEPT ![t] = "respond"]
    ELSE /\ pc' = [pc EXCEPT ![t] = "upsert"]
         /\ UNCHANGED res

\* saveQuestionToS3 wrote questions/<uuid>.json and returned the uuid.
\* questionStorageService.js keeps only the doc comment of this function
\* (lines 12-16); its effect is taken from that comment, from
\* generateQuestionId and from the path getQuestionFromS3 reads.
SaveOk(t) ==
    /\ pc[t] = "save" /\ JsIdle
    /\ blob' = blob \cup {MkBlob(Uuid(nextUuid), key[t], gen[t])}
    /\ nextUuid' = nextUuid + 1
    /\ s3id' = [s3id EXCEPT ![t] = Uuid(nextUuid)]
    /\ saved' = [saved EXCEPT ![t] = "ok"]
    /\ AfterSave(t, Uuid(nextUuid))
    /\ UNCHANGED <<docs, nextOid, nextGen, kind, key, gen, scheduled,
                   lastHit, lastCold, lastWrite,
                   coldServed, lastServed, cleared>>
    /\ UNCHANGED <<cvars, xvars>>

\* saveQuestionToS3 threw (an S3 error; also the TypeError of calling a
\* function the module does not export).
SaveFail(t) ==
    /\ pc[t] = "save" /\ JsIdle
    /\ saved' = [saved EXCEPT ![t] = "failed"]
    /\ IF SaveErrorSwallowed
       THEN AfterSave(t, NoId) /\ UNCHANGED docs
       ELSE Fail(t, "StorageError")
    /\ UNCHANGED <<blob, nextOid, nextUuid, nextGen, kind, key, gen, s3id,
                   scheduled, lastHit, lastCold, lastWrite,
                   coldServed, lastServed, cleared>>
    /\ UNCHANGED <<cvars, xvars>>

\* ------------------------------------------------------- findOneAndUpdate
\* The $set of findOneAndUpdate: every question field of the document is
\* replaced in one document write; _id, apClass and unit stay.
UpdatedDocStale(d, q) == d
UpdatedDoc(d, q) == MkDoc(d.id, [apClass |-> d.apClass, unit |-> d.unit], q)

\* A document matched: it is updated in place and returned (new: true).
UpsertUpdate(t) ==
    /\ pc[t] = "upsert" /\ JsIdle
    /\ Matching(key[t]) # {}
    /\ LET d == FindOne(key[t]) IN
         /\ docs' = (docs \ {d}) \cup {UpdatedDoc(d, gen[t])}
         /\ Stored(t, d.id)
    /\ NoteWrite(t, key[t], gen[t])
    /\ UNCHANGED <<blob, nextOid, nextUuid, nextGen, kind, key, gen, s3id,
                   scheduled, saved, coldServed, lastServed, cleared>>
    /\ UNCHANGED <<cvars, xvars>>

\* Nothing matched: the upsert turns into an insert.
UpsertMiss(t) ==
    /\ pc[t] = "upsert" /\ JsIdle
    /\ Matching(key[t]) = {}
    /\ pc' = [pc EXCEPT ![t] = "insert"]
    /\ UNCHANGED <<docs, blob, nextOid, nextUuid, nextGen, kind, key, gen,
                   s3id, res, scheduled, saved, lastHit, lastCold, lastWrite,
                   coldServed, lastServed, cleared>>
    /\ UNCHANGED <<cvars, xvars>>

\* The insert of an upsert that matched nothing; no unique index stops it.
InsertedDocsNoUpsert(t) == docs
InsertedDocs(t) == docs \cup {MkDoc(Oid(nextOid), key[t], gen[t])}

UpsertInsert(t) ==
    /\ pc[t] = "insert" /\ JsIdle
    /\ docs' = InsertedDocs(t)
    /\ nextOid' = nextOid + 1
    /\ Stored(t, Oid(nextOid))
    /\ NoteWrite(t, key[t], gen[t])
    /\ UNCHANGED <<blob, nextUuid, nextGen, kind, key, gen, s3id,
                   scheduled, saved, coldServed, lastServed, cleared>>
    /\ UNCHANGED <<cvars, xvars>>

\* The database rejected or lost the write.
UpsertFail(t) ==
    /\ pc[t] \in {"upsert", "insert"} /\ JsIdle
    /\ Fail(t, "DbError")
    /\ UNCHANGED <<blob, nextOid, nextUuid, nextGen, kind, key, gen, s3id,
                   scheduled, saved, lastHit, lastCold, lastWrite,
                   coldServed, lastServed, cleared>>
    /\ UNCHANGED <<cvars, xvars>>

\* --------------------------------------------------------------- response
\* res.json / res.status(500).json of the route handler, or the .then /
\* .catch of refreshQuestionBackground; the call is over and its slot is
\* handed back.
Respond(t) ==
    /\ pc[t] = "respond"
    /\ pc' = [pc EXCEPT ![t] = "idle"]
    /\ kind' = [kind EXCEPT ![t] = "none"]
    /\ key' = [key EXCEPT ![t] = AnyKey]
    /\ gen' = [gen EXCEPT ![t] = 0]
    /\ s3id' = [s3id EXCEPT ![t] = NoId]
    /\ saved' = [saved EXCEPT ![t] = "no"]
    /\ res' = [res EXCEPT ![t] = NoRes]
    /\ lastHit' = IF kind[t] = "fetch" /\ res[t].cached = "true"
                  THEN [lastHit EXCEPT ![key[t]] = res[t]] ELSE lastHit
    /\ lastCold' = IF kind[t] = "fetch" /\ res[t].cached = "false"
                   THEN [lastCold EXCEPT ![key[t]] = res[t].questionId]
                   ELSE lastCold
    /\ coldServed' = IF kind[t] = "fetch" /\ res[t].cached = "false"
                     THEN [coldServed EXCEPT ![key[t]] = TRUE] ELSE coldServed
    /\ lastServed' = IF kind[t] \in {"fetch", "prime"} /\ res[t].status = "ok"
                     THEN [lastServed EXCEPT ![key[t]] =
                             [questionId |-> res[t].questionId,
                              answer |-> res[t].answer]]
                     ELSE lastServed
    /\ UNCHANGED <<docs, blob, nextOid, nextUuid, nextGen, scheduled,
                   lastWrite, cleared>>
    /\ UNCHANGED <<cvars, xvars>>

\* clearCache: Question.deleteMany({}) removes every document of the
\* collection, whatever its key.
ClearedDocsNone == docs
ClearedDocs == {}

ClearCache ==
    /\ JsIdle
    /\ docs' = ClearedDocs
    /\ lastHit' = [k \in Keys |-> NoRes]
    /\ lastCold' = [k \in Keys |-> NoId]
    /\ lastWrite' = [k \in Keys |-> 0]
    /\ coldServed' = [k \in Keys |-> FALSE]
    /\ lastServed' = [k \in Keys |-> NoServed]
    /\ cleared' = [k \in Keys |-> JustCleared]
    /\ UNCHANGED <<blob, nextOid, nextUuid, nextGen, pc, kind, key, gen,
                   s3id, res, scheduled, saved>>
    /\ UNCHANGED <<cvars, xvars>>

Next ==
    \/ \E t \in Tasks, k \in Keys : StartFetch(t, k)
    \/ \E t \in Tasks, k \in Keys : StartForce(t, k)
    \/ \E t \in Tasks, k \in Keys : StartPrime(t, k)
    \/ \E t \in Tasks, k \in Keys : RefreshStart(t, k)
    \/ \E t \in Tasks : FetchFind(t)
    \/ \E t \in Tasks : GenOk(t)
    \/ \E t \in Tasks : GenFail(t)
    \/ \E t \in Tasks : SaveOk(t)
    \/ \E t \in Tasks : SaveFail(t)
    \/ \E t \in Tasks : UpsertUpdate(t)
    \/ \E t \in Tasks : UpsertMiss(t)
    \/ \E t \in Tasks : UpsertInsert(t)
    \/ \E t \in Tasks : UpsertFail(t)
    \/ \E t \in Tasks : Respond(t)
    \/ ClearCache

Spec == Init /\ [][Next]_vars

\* What the event loop and the drivers guarantee: a queued continuation or
\* setImmediate callback runs, and a MongoDB or S3 call ends (the drivers
\* time their calls out).  Nothing is promised for the generator:
\* client.chat.completions.parse is awaited with no timeout and no abort
\* signal, and the provider may never answer.
FairSpec ==
    /\ Spec
    /\ WF_vars(\E t \in Tasks : Respond(t))
    /\ WF_vars(\E t \in Tasks, k \in Keys : RefreshStart(t, k))
    /\ WF_vars(\E t \in Tasks : FetchFind(t))
    /\ WF_vars(\E t \in Tasks : SaveOk(t) \/ SaveFail(t))
    /\ WF_vars(\E t \in Tasks : UpsertUpdate(t) \/ UpsertMiss(t)
                                  \/ UpsertInsert(t) \/ UpsertFail(t))

TypeOK ==
    /\ \A d \in docs : d.id[1] = "oid"
    /\ \A b \in blob : b.id[1] = "uuid"
    /\ \A t \in Tasks : pc[t] \in {"idle", "find", "gen", "save", "upsert",
                                   "insert", "respond"}

\* ================================================================ browser
\* public/js/question-app.js: the page that asks for questions.  Every
\* action is one event handler, timer callback or fetch continuation.  The
\* server appears only through what POST /api/question does with the unit
\* it is sent.

\* apClassesData.courses: the units (semester1, then semester2) per course.
Courses == {"AP Biology", "AP Research"}
CourseUnits(c) == IF c = "AP Biology" THEN <<"Unit 1">> ELSE <<>>
AllUnits == {"Unit 1"}

\* Values of the range sliders: indexes into currentUnits.
Digits == <<"0">>
SliderValues == 0 .. (Len(Digits) - 1)
Min(a, b) == IF a <= b THEN a ELSE b
Max(a, b) == IF a <= b THEN b ELSE a

\* `__custom__|${min}|${max}`
CustomSel(from, to) == "__custom__|" \o Digits[from + 1] \o "|" \o Digits[to + 1]
CustomRanges == {r \in SliderValues \X SliderValues : r[1] <= r[2]}

\* selectedUnit.startsWith('__custom__')
IsCustom(s) == s = "__custom__" \/ \E r \in CustomRanges : s = CustomSel(r[1], r[2])

\* selectedUnit.split('|'), parseInt(parts[1]), parseInt(parts[2])
ParseCustom(s) == CHOOSE r \in CustomRanges : s = CustomSel(r[1], r[2])

\* currentUnits[i]; an index outside the array gives undefined, which
\* JSON.stringify drops and the route reads as ''.
UnitAt(i) == IF i + 1 \in DOMAIN currentUnits THEN currentUnits[i + 1] ELSE ""

\* The units getRandomUnit / prefetch can send for the selection sel.
GetRandomUnitUnresolved(sel) == {sel}
GetRandomUnit(sel) ==
    IF sel # "__custom__" /\ IsCustom(sel)
    THEN {UnitAt(i) : i \in ParseCustom(sel)[1] .. ParseCustom(sel)[2]}
    ELSE IF sel = "" /\ Len(currentUnits) > 0
    THEN {currentUnits[i] : i \in DOMAIN currentUnits}
    ELSE {sel}

\* cacheKey: `${selectedClass}|${selectedUnit}`, or selectedClass alone.
CacheKey(cls, sel) == [cls |-> cls, unit |-> sel]

\* The `required` validator of questionSchema.unit, run by findOneAndUpdate
\* (runValidators: true): an empty string is rejected.
ValidUnitAny(u) == TRUE
ValidUnit(u) == u # ""

\* What both change listeners do after updating the selects.
SelectionChanged ==
    /\ hasShownFirst' = FALSE
    /\ cache' = {}
    /\ cacheData' = {}
    /\ prefetch' = {}
    /\ changeAborted' = (changeAborted \/ prefetch # {})
    /\ shownFor' = {}
    /\ UNCHANGED <<timers, requests, shown, lastCacheKey, cacheKeys,
                   nextResponse, displayed>>

\* 'change' on the class select: populateUnits rebuilds the unit select.
ClassChange(c) ==
    /\ c # classSelect
    /\ classSelect' = c
    /\ unitSelect' = ""
    /\ currentUnits' = IF c # "" /\ Len(CourseUnits(c)) > 0
                       THEN CourseUnits(c) ELSE currentUnits
    /\ SelectionChanged
    /\ UNCHANGED <<svars, xvars>>

\* 'change' on the unit select (enabled when the course has units).
UnitChange(u) ==
    /\ classSelect # "" /\ Len(CourseUnits(classSelect)) > 0
    /\ u # unitSelect
    /\ unitSelect' = u
    /\ SelectionChanged
    /\ UNCHANGED <<classSelect, currentUnits>>
    /\ UNCHANGED <<svars, xvars>>

\* QuestionManager.getCachedQuestion(key): what this.cache holds after the
\* call (delete this.cache[key]).
CacheAfterPeek(k) == cacheData
CacheAfterTake(k) == {e \in cacheData : e.key # k}

\* handleQuestionRequest up to its first await, for the selection sel.
\* The prefetch cache holds the key: the question is shown at once.
SubmitCached(sel) ==
    /\ \E e \in cacheData : e.key = CacheKey(classSelect, sel)
    /\ Cardinality(timers \cup {CacheKey(classSelect, sel)}) <= MaxTimers
    /\ lastCacheKey' = CacheKey(classSelect, sel)
    /\ LET data == CHOOSE e \in cacheData : e.key = CacheKey(classSelect, sel) IN
         displayed' = [displayed EXCEPT ![data.id] = Min(@ + 1, 2)]
    /\ cacheData' = CacheAfterTake(CacheKey(classSelect, sel))
    /\ cache' = {e.key : e \in cacheData'}
    /\ shown' = "prefetched"
    /\ hasShownFirst' = TRUE
    /\ shownFor' = shownFor \cup {CacheKey(classSelect, sel)}
    /\ timers' = timers \cup {CacheKey(classSelect, sel)}
    /\ UNCHANGED <<classSelect, unitSelect, currentUnits, prefetch, requests,
                   cacheKeys, changeAborted, nextResponse>>

\* hasShownFirstQuestion() after the selectionChanged test of
\* handleQuestionRequest (resetFirstShown when the cache key is new).
FirstShown(sel) ==
    IF lastCacheKey # CacheKey(classSelect, sel) THEN FALSE ELSE hasShownFirst

\* const useCache = !this.questionManager.hasShownFirstQuestion()
UseCache(sel) == ~ FirstShown(sel)

\* Nothing prefetched: fetchQuestion is called with the unit getRandomUnit
\* drew; the database cache is asked for the first question of a selection.
SubmitFetch(sel) ==
    /\ \A e \in cacheData : e.key # CacheKey(classSelect, sel)
    /\ Cardinality(requests) < MaxRequests
    /\ lastCacheKey' = CacheKey(classSelect, sel)
    /\ hasShownFirst' = FirstShown(sel)
    /\ \E unit \in GetRandomUnit(sel) :
          requests' = requests \cup {[cls |-> classSelect, sel |-> sel,
                                      unit |-> unit, useCache |-> UseCache(sel),
                                      status |-> "sent"]}
    /\ UNCHANGED <<classSelect, unitSelect, currentUnits, cache, prefetch,
                   timers, shown, cacheKeys, changeAborted, cacheData, nextResponse, shownFor,
                   displayed>>

\* 'submit' of the form.
Submit(from, to) ==
    /\ classSelect # ""
    /\ LET sel == IF unitSelect = "__custom__"
                  THEN CustomSel(Min(from, to), Max(from, to))
                  ELSE unitSelect IN
         SubmitCached(sel) \/ SubmitFetch(sel)
    /\ UNCHANGED <<svars, xvars>>

\* POST /api/question has handled a request of handleQuestionRequest and
\* answers with a question.  With skipCache the generator was called;
\* without it getCachedQuestion found the key, or generateAndStoreQuestion
\* wrote a document for (className, unit || '').
RouteOk(r) ==
    /\ r \in requests /\ r.status = "sent"
    /\ LET k == [apClass |-> r.cls, unit |-> r.unit] IN
         IF r.useCache
         THEN /\ k \in cacheKeys \/ ValidUnit(r.unit)
              /\ cacheKeys' = cacheKeys \cup {k}
         ELSE UNCHANGED cacheKeys
    /\ requests' = (requests \ {r}) \cup {[r EXCEPT !.status = "ok"]}
    /\ UNCHANGED <<classSelect, unitSelect, currentUnits, cache, prefetch,
                   timers, shown, hasShownFirst, lastCacheKey, changeAborted, cacheData, nextResponse, shownFor,
                   displayed>>
    /\ UNCHANGED <<svars, xvars>>

\* The route answers 500 (generation or database error), or fetch throws.
RouteError(r) ==
    /\ r \in requests /\ r.status = "sent"
    /\ requests' = (requests \ {r}) \cup {[r EXCEPT !.status = "error"]}
    /\ UNCHANGED <<classSelect, unitSelect, currentUnits, cache, prefetch,
                   timers, shown, hasShownFirst, lastCacheKey, cacheKeys,
                   changeAborted, cacheData, nextResponse, shownFor,
                   displayed>>
    /\ UNCHANGED <<svars, xvars>>

\* handleQuestionRequest after await fetchQuestion: the question is shown
\* and the next one is prefetched 100 ms later.
RequestOk(r) ==
    /\ r \in requests /\ r.status = "ok"
    /\ Cardinality(timers \cup {CacheKey(r.cls, r.sel)}) <= MaxTimers
    /\ requests' = requests \ {r}
    /\ shown' = "fetched"
    /\ hasShownFirst' = TRUE
    /\ shownFor' = shownFor \cup {CacheKey(r.cls, r.sel)}
    /\ timers' = timers \cup {CacheKey(r.cls, r.sel)}
    /\ UNCHANGED <<classSelect, unitSelect, currentUnits, cache, prefetch,
                   lastCacheKey, cacheKeys, changeAborted, cacheData,
                   nextResponse, displayed>>
    /\ UNCHANGED <<svars, xvars>>

\* handleQuestionRequest shows the error.
RequestError(r) ==
    /\ r \in requests /\ r.status = "error"
    /\ requests' = requests \ {r}
    /\ UNCHANGED <<classSelect, unitSelect, currentUnits, cache, prefetch,
                   timers, shown, hasShownFirst, lastCacheKey, cacheKeys,
                   changeAborted, cacheData, nextResponse, shownFor,
                   displayed>>
    /\ UNCHANGED <<svars, xvars>>

\* QuestionManager.prefetch: requestQuestion(..., true).
PrefetchSkipCache == TRUE

\* setTimeout(() => prefetchNext(selectedClass, selectedUnit), 100) fires:
\* QuestionManager.prefetch aborts the prefetch in flight and requests a
\* question (skipCache) for the selection the timer was set with.
TimerFires(tm) ==
    /\ tm \in timers
    /\ timers' = timers \ {tm}
    /\ \E unit \in GetRandomUnit(tm.unit) :
          prefetch' = {[cls |-> tm.cls, sel |-> tm.unit, unit |-> unit,
                        skipCache |-> PrefetchSkipCache]}
    /\ UNCHANGED <<classSelect, unitSelect, currentUnits, cache, requests,
                   shown, hasShownFirst, lastCacheKey, cacheKeys,
                   changeAborted, cacheData, nextResponse, shownFor,
                   displayed>>
    /\ UNCHANGED <<svars, xvars>>

\* The prefetch request answered with a question: cacheQuestion(cacheKey).
PrefetchOk(p) ==
    /\ p \in prefetch
    /\ nextResponse <= MaxResponses
    /\ prefetch' = {}
    /\ cacheData' = {e \in cacheData : e.key # CacheKey(p.cls, p.sel)}
                        \cup {[key |-> CacheKey(p.cls, p.sel), id |-> nextResponse]}
    /\ nextResponse' = nextResponse + 1
    /\ cache' = {e.key : e \in cacheData'}
    /\ UNCHANGED <<classSelect, unitSelect, currentUnits, timers, requests,
                   shown, hasShownFirst, lastCacheKey, cacheKeys,
                   changeAborted, shownFor, displayed>>
    /\ UNCHANGED <<svars, xvars>>

\* The prefetch request answered with an error, or failed.
PrefetchError(p) ==
    /\ p \in prefetch
    /\ prefetch' = {}
    /\ UNCHANGED <<classSelect, unitSelect, currentUnits, cache, timers,
                   requests, shown, hasShownFirst, lastCacheKey, cacheKeys,
                   changeAborted, cacheData, nextResponse, shownFor,
                   displayed>>
    /\ UNCHANGED <<svars, xvars>>

NextClient ==
    \/ \E c \in Courses \cup {""} : ClassChange(c)
    \/ \E u \in AllUnits \cup {"", "__custom__"} : UnitChange(u)
    \/ \E from, to \in SliderValues : Submit(from, to)
    \/ \E r \in requests : RouteOk(r)
    \/ \E r \in requests : RouteError(r)
    \/ \E r \in requests : RequestOk(r)
    \/ \E r \in requests : RequestError(r)
    \/ \E tm \in timers : TimerFires(tm)
    \/ \E p \in prefetch : PrefetchOk(p)
    \/ \E p \in prefetch : PrefetchError(p)

SpecClient == Init /\ [][NextClient]_vars

\* ================================================== accounts and ledger
\* routes/api/auth.js behind middleware/verifyAuth.js: the User collection,
\* the JWTs handed out, and the requests in flight.  A call is one request;
\* each action is the completion of the I/O call it awaits together with
\* the synchronous code that follows up to the next await.
\*
\* Mongoose: user.save() sends the changes made to the loaded document,
\* not the document: a push to an array is a $push, a change inside an
\* array element is a $set of that position, a splice is a $set of the
\* whole array.  Pushing a plain object onto a document array stores a
\* subdocument cast from it: the plain object stays what it was and later
\* changes to it do not reach the document.
UserIds == 1..NUsers
Calls == 1..NCalls

LedgerKeys == [apClass : {"AP Biology"}, unit : {"Unit 1", "Unit 2"}]

NoUser == [exists |-> FALSE, verified |-> FALSE, progress |-> <<>>,
           questionHistory |-> <<>>, bookmarkedQuestions |-> <<>>]
NewUser == [NoUser EXCEPT !.exists = TRUE]

NoToken == <<"none", 0>>
BadToken == <<"bad", 0>>
Jwt(u) == <<"jwt", u>>

\* The Authorization header a client can send.
AnyToken == {NoToken, BadToken} \cup {Jwt(u) : u \in UserIds}
SignedToken == {Jwt(u) : u \in UserIds}

\* req.body; a field the client left out is undefined.
NoBody == [questionId |-> NoId, apClass |-> "", unit |-> "",
           selectedAnswer |-> "", wasCorrect |-> "undefined"]
AttemptBody(qid, k, wc) ==
    [questionId |-> qid, apClass |-> k.apClass, unit |-> k.unit,
     selectedAnswer |-> "A", wasCorrect |-> wc]
BookmarkBody(qid) == [NoBody EXCEPT !.questionId = qid]
RequiredFields == {"apClass", "unit", "selectedAnswer", "wasCorrect",
                   "questionId"}
Without(b, f) == [b EXCEPT ![f] = NoBody[f]]

Reply(st) == [status |-> st, mastery |-> 0, totalAttempts |-> 0,
              bookmarked |-> FALSE]

IdleCall == [pc |-> "idle", route |-> "none", token |-> NoToken,
             userId |-> 0, body |-> NoBody, handler |-> FALSE,
             op |-> "none", idx |-> 0, correct |-> 0, marks |-> <<>>,
             stale |-> FALSE, reply |-> Reply(0)]

\* res.status(st).json(...): the response is written in the task that
\* decided it; nothing else runs in between (Quiet).
Finish(c, r) == [c EXCEPT !.pc = "done", !.op = "none", !.idx = 0,
                          !.correct = 0, !.marks = <<>>, !.stale = FALSE,
                          !.reply = r]

FreeCall(s) == calls[s].pc = "idle"
LowestFreeCall(s) == FreeCall(s) /\ \A t \in Calls : t < s => ~FreeCall(t)

Quiet == \A s \in Calls : calls[s].pc # "done"

InFlight(route) == {s \in Calls : ~FreeCall(s) /\ calls[s].route = route}

RECURSIVE SumOver(_, _)
SumOver(f, S) ==
    IF S = {} THEN 0
    ELSE LET x == CHOOSE y \in S : TRUE IN f[x] + SumOver(f, S \ {x})

StoredTotal(field) == SumOver([u \in UserIds |-> Len(users[u][field])], UserIds)

\* Math.round((correctAttempts / totalAttempts) * 100)
Mastery(correct, total) == (200 * correct + total) \div (2 * total)

\* The subdocument Mongoose casts from the object pushed at line 327.
CastEntry(b, total, correct) ==
    [apClass |-> b.apClass, unit |-> b.unit, mastery |-> 0,
     totalAttempts |-> 0, correctAttempts |-> 0]

AttemptRecord(b) ==
    [questionId |-> b.questionId, apClass |-> b.apClass, unit |-> b.unit,
     selectedAnswer |-> b.selectedAnswer, wasCorrect |-> b.wasCorrect = "true"]

\* user.progress.find(p => p.apClass === apClass && p.unit === unit):
\* the position of the first match, 0 for undefined.
EntryIndex(p, b) ==
    LET hit(i) == p[i].apClass = b.apClass /\ p[i].unit = b.unit
    IN IF \E i \in 1..Len(p) : hit(i)
       THEN CHOOSE i \in 1..Len(p) : hit(i) /\ \A j \in 1..(i - 1) : ~hit(j)
       ELSE 0

\* user.bookmarkedQuestions.indexOf(questionId), counted from 1; 0 for -1.
IndexOf(m, q) ==
    IF \E i \in 1..Len(m) : m[i] = q
    THEN CHOOSE i \in 1..Len(m) : m[i] = q /\ \A j \in 1..(i - 1) : m[j] # q
    ELSE 0

\* splice(index, 1)
Splice(m, i) == SubSeq(m, 1, i - 1) \o SubSeq(m, i + 1, Len(m))

\* POST /api/auth/register.  The user is stored before the confirmation
\* mail is sent; when the mail fails the answer is 500 and carries no token.
Register(u, mailed) ==
    /\ Quiet
    /\ ~users[u].exists
    /\ u \notin tokens
    /\ users' = [users EXCEPT ![u] = NewUser]
    /\ tokens' = IF mailed THEN tokens \cup {u} ELSE tokens
    /\ UNCHANGED calls
    /\ UNCHANGED exceptAccounts

\* GET /api/auth/verify-email with the token of the confirmation mail.
VerifyEmail(u) ==
    /\ Quiet
    /\ users[u].exists
    /\ ~users[u].verified
    /\ users' = [users EXCEPT ![u].verified = TRUE]
    /\ tokens' = tokens \cup {u}
    /\ UNCHANGED calls
    /\ UNCHANGED exceptAccounts

\* The account is deleted from the database (no route does it): what
\* User.findById answers null for.
RemoveUser(u) ==
    /\ Quiet
    /\ users[u].exists
    /\ users' = [users EXCEPT ![u] = NoUser]
    /\ UNCHANGED <<tokens, calls>>
    /\ UNCHANGED exceptAccounts

\* A request to a route behind verifyToken arrives: the synchronous part
\* of verifyToken.
TokenChecked(c, tok) ==
    IF tok[1] # "jwt" THEN Finish(c, Reply(401))
    ELSE [c EXCEPT !.pc = "auth", !.userId = tok[2]]

StartCall(s, route, tok, body) ==
    /\ Quiet
    /\ LowestFreeCall(s)
    /\ tok[1] = "jwt" => tok[2] \in tokens
    /\ route = "record" =>
           StoredTotal("questionHistory") + Cardinality(InFlight("record"))
               < MaxAttempts
    /\ route = "bookmark" =>
           \/ StoredTotal("bookmarkedQuestions")
                  + Cardinality(InFlight("bookmark")) < MaxMarks
           \/ /\ tok[1] = "jwt"
              /\ IndexOf(users[tok[2]].bookmarkedQuestions, body.questionId) > 0
    /\ calls' = [calls EXCEPT ![s] =
           TokenChecked([IdleCall EXCEPT !.route = route, !.token = tok,
                                         !.body = body], tok)]
    /\ UNCHANGED <<users, tokens>>
    /\ UNCHANGED exceptAccounts

\* The validation at the head of the handlers.
ValidAttemptLax(b) ==
    /\ b.apClass # ""
    /\ b.unit # ""
    /\ b.selectedAnswer # ""
    /\ b.wasCorrect \in {"true", "false"}
ValidAttempt(b) ==
    /\ b.apClass # ""
    /\ b.unit # ""
    /\ b.selectedAnswer # ""
    /\ b.wasCorrect \in {"true", "false"}
    /\ b.questionId # NoId

\* next(): the handler runs up to its first await.
HandlerEntry(c) ==
    LET h == [c EXCEPT !.handler = TRUE]
    IN IF c.route = "record"
       THEN IF ValidAttempt(c.body) THEN [h EXCEPT !.pc = "load"]
            ELSE Finish(h, Reply(400))
       ELSE IF c.body.questionId # NoId THEN [h EXCEPT !.pc = "load"]
            ELSE Finish(h, Reply(400))

\* verifyToken after User.findById(req.userId).select('verified').
VerifiedCheck(c, u) ==
    IF ~u.verified THEN Finish(c, Reply(403)) ELSE HandlerEntry(c)

VerifyDone(s) ==
    /\ Quiet
    /\ calls[s].pc = "auth"
    /\ LET c == calls[s]
           u == users[c.userId]
       IN calls' = [calls EXCEPT ![s] =
              IF ~u.exists THEN Finish(c, Reply(404))
              ELSE VerifiedCheck(c, u)]
    /\ UNCHANGED <<users, tokens>>
    /\ UNCHANGED exceptAccounts

\* record-attempt, lines 302-337: the changes made to the loaded user.
AttemptChanges(c, u) ==
    LET i == EntryIndex(u.progress, c.body)
        hit == IF c.body.wasCorrect = "true" THEN 1 ELSE 0
        total == IF i = 0 THEN 1 ELSE u.progress[i].totalAttempts + 1
        correct == IF i = 0 THEN hit ELSE u.progress[i].correctAttempts + hit
    IN [c EXCEPT !.pc = "save",
                 !.op = IF i = 0 THEN "pushEntry" ELSE "setEntry",
                 !.idx = i,
                 !.correct = correct,
                 !.reply = [Reply(200) EXCEPT
                               !.mastery = Mastery(correct, total),
                               !.totalAttempts = total]]

\* bookmark, lines 427-432.
BookmarkChanges(c, u) ==
    LET i == IndexOf(u.bookmarkedQuestions, c.body.questionId)
    IN [c EXCEPT !.pc = "save",
                 !.op = IF i = 0 THEN "pushMark" ELSE "spliceMark",
                 !.idx = i,
                 !.marks = IF i = 0 THEN <<>>
                           ELSE Splice(u.bookmarkedQuestions, i),
                 !.reply = [Reply(200) EXCEPT !.bookmarked = (i = 0)]]

\* The handler after User.findById(req.userId).
LoadDone(s) ==
    /\ Quiet
    /\ calls[s].pc = "load"
    /\ LET c == calls[s]
           u == users[c.userId]
       IN calls' = [calls EXCEPT ![s] =
              IF ~u.exists THEN Finish(c, Reply(404))
              ELSE IF c.route = "record" THEN AttemptChanges(c, u)
              ELSE BookmarkChanges(c, u)]
    /\ UNCHANGED <<users, tokens>>
    /\ UNCHANGED exceptAccounts

\* The update user.save() sends, applied to the stored user.
SavedHistoryAlone(c, u) == <<AttemptRecord(c.body)>>
SavedHistory(c, u) == Append(u.questionHistory, AttemptRecord(c.body))

SavedProgress(c, u) ==
    IF c.op = "pushEntry"
    THEN Append(u.progress, CastEntry(c.body, c.reply.totalAttempts, c.correct))
    ELSE [u.progress EXCEPT ![c.idx].totalAttempts = c.reply.totalAttempts,
                            ![c.idx].correctAttempts = c.correct,
                            ![c.idx].mastery = c.reply.mastery]

SavedMarks(c, u) ==
    IF c.op = "pushMark"
    THEN Append(u.bookmarkedQuestions, c.body.questionId)
    ELSE c.marks

SavedUser(c, u) ==
    IF c.route = "record"
    THEN [u EXCEPT !.questionHistory = SavedHistory(c, u),
                   !.progress = SavedProgress(c, u)]
    ELSE [u EXCEPT !.bookmarkedQuestions = SavedMarks(c, u)]

\* Mongoose's version key: an update that sets a whole array carries the
\* version the document was loaded with and fails when the stored version
\* has moved on; an update that only pushes carries none.  Whether an
\* update that sets a position inside an array carries it, and whether it
\* moves the version on, differs between releases: both are allowed.
ChecksVersion(op) == op \in {"spliceMark", "setEntry"}
MustCheckVersion(op) == op = "spliceMark"
MayMoveVersion(op) == op \in {"pushEntry", "pushMark", "spliceMark", "setEntry"}
MustMoveVersion(op) == op \in {"pushEntry", "pushMark", "spliceMark"}

UserSaveOk(s, moves) ==
    /\ Quiet
    /\ calls[s].pc = "save"
    /\ users[calls[s].userId].exists
    /\ ~(calls[s].stale /\ MustCheckVersion(calls[s].op))
    /\ moves => MayMoveVersion(calls[s].op)
    /\ ~moves => ~MustMoveVersion(calls[s].op)
    /\ LET c == calls[s]
       IN /\ users' = [users EXCEPT ![c.userId] = SavedUser(c, users[c.userId])]
          /\ calls' = [t \in Calls |->
                 IF t = s THEN Finish(c, c.reply)
                 ELSE IF /\ moves
                         /\ calls[t].pc = "save"
                         /\ calls[t].userId = c.userId
                      THEN [calls[t] EXCEPT !.stale = TRUE]
                      ELSE calls[t]]
    /\ UNCHANGED tokens
    /\ UNCHANGED exceptAccounts

\* user.save() rejects (VersionError, or DocumentNotFoundError when the
\* user is gone): the catch block answers 500.
UserSaveError(s) ==
    /\ Quiet
    /\ calls[s].pc = "save"
    /\ \/ ~users[calls[s].userId].exists
       \/ calls[s].stale /\ ChecksVersion(calls[s].op)
    /\ calls' = [calls EXCEPT ![s] = Finish(calls[s], Reply(500))]
    /\ UNCHANGED <<users, tokens>>
    /\ UNCHANGED exceptAccounts

\* The response has left: the slot is free.
Answer(s) ==
    /\ calls[s].pc = "done"
    /\ calls' = [calls EXCEPT ![s] = IdleCall]
    /\ UNCHANGED <<users, tokens>>
    /\ UNCHANGED exceptAccounts

\* ============================================================== storage
\* services/questionStorageService.js: getQuestionsFromS3 starts one
\* getQuestionFromS3 per id, all at once, and awaits them together; the
\* gets end in any order.
StoredIds == {Uuid(1), Uuid(2)}
AskedIds == StoredIds \cup {Oid(1)}

\* The objects of the bucket: questions/<id>.json as saveQuestionToS3
\* wrote them.
ObjectsOf(ids) == {MkBlob(id, AnyKey, id[2]) : id \in ids}

IdLists == UNION {[1..n -> AskedIds] : n \in 0..MaxIds}

NoBlobBody == MkBlob(NoId, AnyKey, 0).body
Pending == [state |-> "pending", body |-> NoBlobBody]
Rejected == [state |-> "rejected", body |-> NoBlobBody]
Null == [state |-> "null", body |-> NoBlobBody]
Got(body) == [state |-> "got", body |-> body]

\* getQuestionsFromS3 is called: questionIds.map starts the gets.
GetManyStart(ids, stored) ==
    /\ getMany.pc = "idle"
    /\ getMany' = [pc |-> "gets", ids |-> ids, objects |-> ObjectsOf(stored),
                   results |-> [i \in 1..Len(ids) |-> Pending],
                   returned |-> <<>>]
    /\ UNCHANGED exceptStorage

\* getQuestionFromS3(id): JSON.parse of the object's content, or the
\* error thrown at line 39 when the object is missing, S3 fails or the
\* content does not parse.
GetQuestionFromS3(id, objects, s3ok) ==
    IF s3ok /\ \E o \in objects : o.id = id
    THEN Got((CHOOSE o \in objects : o.id = id).body)
    ELSE Rejected

\* .catch(err => { logger.warn(...); return null; })
CaughtNot(r) == r
Caught(r) == IF r.state = "rejected" THEN Null ELSE r

\* One of the gets ends.
GetOneDone(i, s3ok) ==
    /\ getMany.pc = "gets"
    /\ i \in 1..Len(getMany.ids)
    /\ getMany.results[i] = Pending
    /\ getMany' = [getMany EXCEPT !.results[i] =
           Caught(GetQuestionFromS3(getMany.ids[i], getMany.objects, s3ok))]
    /\ UNCHANGED exceptStorage

\* results.filter(q => q !== null)
RECURSIVE FilterNotNull(_)
FilterNotNull(rs) ==
    IF rs = <<>> THEN <<>>
    ELSE IF Head(rs).state = "null" THEN FilterNotNull(Tail(rs))
    ELSE <<Head(rs).body>> \o FilterNotNull(Tail(rs))

\* Promise.all settles: with the filtered results, or, one of the
\* promises having rejected, with its error (rethrown at line 61).
GetManyReturn ==
    /\ getMany.pc = "gets"
    /\ \A i \in 1..Len(getMany.ids) : getMany.results[i] # Pending
    /\ getMany' =
           IF \E i \in 1..Len(getMany.ids) :
                  getMany.results[i].state = "rejected"
           THEN [getMany EXCEPT !.pc = "thrown"]
           ELSE [getMany EXCEPT !.pc = "returned",
                                !.returned = FilterNotNull(getMany.results)]
    /\ UNCHANGED exceptStorage

NextStorage ==
    \/ \E ids \in IdLists, stored \in SUBSET StoredIds :
           GetManyStart(ids, stored)
    \/ \E i \in 1..MaxIds, s3ok \in BOOLEAN : GetOneDone(i, s3ok)
    \/ GetManyReturn

SpecStorage == Init /\ [][NextStorage]_vars

\* ============================================================ generator
\* services/aiService.js, selectModelForClass: the model a class is
\* generated with.
Subjects == {"AP US History", "AP US Government and Politics",
             "AP Macroeconomics", "AP Psychology", "AP Human Geography",
             "AP English Literature", "AP Biology", "AP Calculus AB",
             "AP Calculus BC", "AP Computer Science A",
             "AP Computer Science Principles", ""}

UpperCase == "ABCDEFGHIJKLMNOPQRSTUVWXYZ"
LowerCase == "abcdefghijklmnopqrstuvwxyz"

CharAt(s, i) == SubSeq(s, i, i)

\* String.prototype.toLowerCase
RECURSIVE ToLowerCase(_)
ToLowerCase(s) ==
    IF s = "" THEN ""
    ELSE LET c == CharAt(s, 1)
             low == IF \E i \in 1..Len(UpperCase) : CharAt(UpperCase, i) = c
                    THEN CharAt(LowerCase,
                                CHOOSE i \in 1..Len(UpperCase) :
                                    CharAt(UpperCase, i) = c)
                    ELSE c
         IN low \o ToLowerCase(SubSeq(s, 2, Len(s)))

\* String.prototype.includes
Includes(s, k) ==
    \E i \in 1..(Len(s) - Len(k) + 1) : SubSeq(s, i, i + Len(k) - 1) = k

historyKeywords == {"history", "government", "economics", "psychology",
                    "sociology", "human geography", "world studies"}
englishKeywords == {"english", "literature"}

matchesKeyword(normalizedClass, keywords) ==
    \E keyword \in keywords : Includes(normalizedClass, ToLowerCase(keyword))

selectModelForClassByKeywords(className) ==
    LET normalizedClass == ToLowerCase(className)
    IN IF \/ matchesKeyword(normalizedClass, historyKeywords)
          \/ matchesKeyword(normalizedClass, englishKeywords)
          \/ Includes(normalizedClass, "economics")
       THEN "gpt-4.1-mini"
       ELSE "gpt-5-mini"
selectModelForClass(className) ==
    LET normalizedClass == ToLowerCase(className)
    IN IF \/ matchesKeyword(normalizedClass, historyKeywords)
          \/ matchesKeyword(normalizedClass, englishKeywords)
          \/ Includes(normalizedClass, "economics")
          \/ Includes(normalizedClass, "computer science principles")
       THEN "gpt-4.1-mini"
       ELSE "gpt-5-mini"

\* generateAPQuestion asks for the model of a class.
SelectModel(className) ==
    /\ Len(picks) < MaxPicks
    /\ picks' = Append(picks, [className |-> className,
                               model |-> selectModelForClass(className)])
    /\ UNCHANGED exceptProfile

NextProfile == \E className \in Subjects : SelectModel(className)

SpecProfile == Init /\ [][NextProfile]_vars

\* =========================================================== rate limit
\* routes/api/question (src/unnamed/part_011): checkOpenAIRateLimit counts
\* the question requests of an IP in windows of one minute that start with
\* the first request after the previous window has run out.
OPENAI_RATE_LIMIT == 15
RATE_LIMIT_WINDOW == 60000

ClientIps == {"203.0.113.7"}

\* The instants, in ms, at which something happens.
Instants == {0, 59999, 60000, 60001}

NoLimit == [present |-> FALSE, count |-> 0, resetTime |-> 0]

\* Math.ceil((resetTime - now) / 1000)
CeilSeconds(ms) == (ms + 999) \div 1000

\* Time passes up to the next instant.
Tick ==
    /\ \E t \in Instants :
           /\ t > now
           /\ \A other \in Instants : other > now => other >= t
           /\ now' = t
           /\ allowedAt' = [ip \in ClientIps |->
                  SelectSeq(allowedAt[ip],
                            LAMBDA at : at > t - RATE_LIMIT_WINDOW)]
    /\ UNCHANGED <<openaiRateLimits, lastCheck>>
    /\ UNCHANGED exceptRate

\* The window of a limit is over at time t.
Expired(limit, t) == t > limit.resetTime

\* POST /api/question with a className from ip: checkOpenAIRateLimit(ip)
\* lets the request through to the generation.
RequestAllowed(ip) ==
    LET userLimit == openaiRateLimits[ip]
    IN /\ \/ ~userLimit.present
          \/ Expired(userLimit, now)
          \/ userLimit.count < OPENAI_RATE_LIMIT
       /\ openaiRateLimits' = [openaiRateLimits EXCEPT ![ip] =
              IF ~userLimit.present \/ Expired(userLimit, now)
              THEN [present |-> TRUE, count |-> 1,
                    resetTime |-> now + RATE_LIMIT_WINDOW]
              ELSE [userLimit EXCEPT !.count = userLimit.count + 1]]
       /\ lastCheck' = [allowed |-> TRUE,
                        remaining |-> OPENAI_RATE_LIMIT
                                          - openaiRateLimits'[ip].count,
                        resetIn |-> 0]
       /\ allowedAt' = [allowedAt EXCEPT ![ip] = Append(allowedAt[ip], now)]
       /\ UNCHANGED now
       /\ UNCHANGED exceptRate

\* The Map after a refusal: the branch returns without writing to it.
LimitsAfterRefusalExtended(ip) ==
    [openaiRateLimits EXCEPT ![ip].resetTime = now + RATE_LIMIT_WINDOW]
LimitsAfterRefusal(ip) == openaiRateLimits

\* checkOpenAIRateLimit(ip) refuses: the route answers 429 with resetIn.
RequestLimited(ip) ==
    LET userLimit == openaiRateLimits[ip]
    IN /\ userLimit.present
       /\ ~Expired(userLimit, now)
       /\ userLimit.count >= OPENAI_RATE_LIMIT
       /\ lastCheck' = [allowed |-> FALSE, remaining |-> 0,
                        resetIn |-> CeilSeconds(userLimit.resetTime - now)]
       /\ openaiRateLimits' = LimitsAfterRefusal(ip)
       /\ UNCHANGED <<now, allowedAt>>
       /\ UNCHANGED exceptRate

\* The setInterval callback: entries whose window is over are deleted.
Cleanup ==
    /\ \E ip \in ClientIps :
           openaiRateLimits[ip].present /\ Expired(openaiRateLimits[ip], now)
    /\ openaiRateLimits' = [ip \in ClientIps |->
           IF openaiRateLimits[ip].present /\ Expired(openaiRateLimits[ip], now)
           THEN NoLimit
           ELSE openaiRateLimits[ip]]
    /\ UNCHANGED <<now, allowedAt, lastCheck>>
    /\ UNCHANGED exceptRate

NextRate ==
    \/ Tick
    \/ \E ip \in ClientIps : RequestAllowed(ip)
    \/ \E ip \in ClientIps : RequestLimited(ip)
    \/ Cleanup

SpecRate == Init /\ [][NextRate]_vars


\* What the page sends: the questionId of the answer of POST /api/question.
AttemptBodies ==
    LET full == {AttemptBody(Oid(1), k, wc) :
                     k \in LedgerKeys, wc \in {"true", "false"}}
        some == CHOOSE b \in full : TRUE
    IN full \cup {Without(some, f) : f \in RequiredFields}

NextLedger ==
    \/ \E u \in UserIds : Register(u, TRUE)
    \/ \E u \in UserIds : VerifyEmail(u)
    \/ \E u \in UserIds : RemoveUser(u)
    \/ \E s \in Calls, tok \in SignedToken, b \in AttemptBodies :
           StartCall(s, "record", tok, b)
    \/ \E s \in Calls : VerifyDone(s)
    \/ \E s \in Calls : LoadDone(s)
    \/ \E s \in Calls, moves \in BOOLEAN : UserSaveOk(s, moves)
    \/ \E s \in Calls : UserSaveError(s)
    \/ \E s \in Calls : Answer(s)

SpecLedger == Init /\ [][NextLedger]_vars

\* The same routes under clients that wait for the answer of a request
\* before they send the next one: one request in flight at a time.
NextLedgerSeq ==
    \/ \E u \in UserIds : Register(u, TRUE)
    \/ \E u \in UserIds : VerifyEmail(u)
    \/ \E u \in UserIds : RemoveUser(u)
    \/ \E tok \in SignedToken, b \in AttemptBodies :
           /\ \A s \in Calls : FreeCall(s)
           /\ StartCall(1, "record", tok, b)
    \/ \E s \in Calls : VerifyDone(s)
    \/ \E s \in Calls : LoadDone(s)
    \/ \E s \in Calls, moves \in BOOLEAN : UserSaveOk(s, moves)
    \/ \E s \in Calls : UserSaveError(s)
    \/ \E s \in Calls : Answer(s)

SpecLedgerSeq == Init /\ [][NextLedgerSeq]_vars

\* POST /api/auth/bookmark under signed-in users.
MarkBodies == {BookmarkBody(q) : q \in {Uuid(1), Uuid(2)}} \cup {NoBody}

NextBookmark ==
    \/ \E u \in UserIds : Register(u, TRUE)
    \/ \E u \in UserIds : VerifyEmail(u)
    \/ \E s \in Calls, tok \in SignedToken, b \in MarkBodies :
           StartCall(s, "bookmark", tok, b)
    \/ \E s \in Calls : VerifyDone(s)
    \/ \E s \in Calls : LoadDone(s)
    \/ \E s \in Calls, moves \in BOOLEAN : UserSaveOk(s, moves)
    \/ \E s \in Calls : UserSaveError(s)
    \/ \E s \in Calls : Answer(s)

SpecBookmark == Init /\ [][NextBookmark]_vars

\* ------------------------------------------------------- question by id
\* routes/api/question-by-id (src/unnamed/part_013), mounted under
\* /api/question: GET /:id behind the verifyToken of that file, which never
\* awaits; the handler starts in the task of the request.
StartQuestionById(s, tok, id) ==
    /\ Quiet
    /\ LowestFreeCall(s)
    /\ tok[1] = "jwt" => tok[2] \in tokens
    /\ LET c == [IdleCall EXCEPT !.route = "question", !.token = tok,
                                 !.body = BookmarkBody(id)]
       IN calls' = [calls EXCEPT ![s] =
              IF tok[1] # "jwt" THEN Finish(c, Reply(401))
              ELSE [c EXCEPT !.pc = "get", !.userId = tok[2],
                             !.handler = TRUE]]
    /\ UNCHANGED <<users, tokens>>
    /\ UNCHANGED exceptAccounts

\* getQuestionFromS3(id) ends: the question, or 404.
QuestionByIdDone(s, found) ==
    /\ Quiet
    /\ calls[s].pc = "get"
    /\ calls' = [calls EXCEPT ![s] =
           Finish(calls[s], Reply(IF found THEN 200 ELSE 404))]
    /\ UNCHANGED <<users, tokens>>
    /\ UNCHANGED exceptAccounts

\* Every route behind a verifyToken, under any token a client can send.
NextAuth ==
    \/ \E u \in UserIds, mailed \in BOOLEAN : Register(u, mailed)
    \/ \E u \in UserIds : VerifyEmail(u)
    \/ \E s \in Calls, tok \in AnyToken :
           StartCall(s, "record", tok,
                     AttemptBody(Oid(1), AnyKey, "true"))
    \/ \E s \in Calls, tok \in AnyToken :
           StartCall(s, "bookmark", tok, BookmarkBody(Oid(1)))
    \/ \E s \in Calls, tok \in AnyToken : StartQuestionById(s, tok, Uuid(1))
    \/ \E s \in Calls, found \in BOOLEAN : QuestionByIdDone(s, found)
    \/ \E s \in Calls : VerifyDone(s)
    \/ \E s \in Calls : LoadDone(s)
    \/ \E s \in Calls, moves \in BOOLEAN : UserSaveOk(s, moves)
    \/ \E s \in Calls : UserSaveError(s)
    \/ \E s \in Calls : Answer(s)

SpecAuth == Init /\ [][NextAuth]_vars

\* The page and the server together: a signed-in user asks for questions
\* (POST /api/question without skipCache) and, having answered one, posts
\* the attempt with the questionId of the response (question-app.js,
\* processQuestionData and recordAttempt).
PostAttempt(k) ==
    /\ lastServed[k].questionId # NoId
    /\ \A s \in Calls : FreeCall(s)
    /\ \E u \in UserIds, wc \in {"true", "false"} :
           StartCall(1, "record", Jwt(u),
                     AttemptBody(lastServed[k].questionId, k, wc))

NextAttempt ==
    \/ \E t \in Tasks, k \in Keys : StartFetch(t, k)
    \/ \E t \in Tasks : FetchFind(t)
    \/ \E t \in Tasks : GenOk(t)
    \/ \E t \in Tasks : SaveOk(t)
    \/ \E t \in Tasks : SaveFail(t)
    \/ \E t \in Tasks : UpsertMiss(t)
    \/ \E t \in Tasks : UpsertInsert(t)
    \/ \E t \in Tasks : Respond(t)
    \/ Register(1, TRUE)
    \/ VerifyEmail(1)
    \/ \E k \in Keys : PostAttempt(k)
    \/ \E s \in Calls : VerifyDone(s)
    \/ \E s \in Calls : LoadDone(s)
    \/ \E s \in Calls, moves \in BOOLEAN : UserSaveOk(s, moves)
    \/ \E s \in Calls : Answer(s)

SpecAttempt == Init /\ [][NextAttempt]_vars

\* ====================================================== cache statistics
\* getCacheStats (s3Service.js:248-256) behind GET /api/question/cache/stats:
\* two queries, awaited one after the other; the requests and refreshes of
\* the server run between them.
NoStats == [pc |-> "idle", total |-> 0, byClass |-> <<>>]

\* Question.countDocuments()
CountDocuments == Cardinality(docs)

\* Question.aggregate([{ $group: { _id: '$apClass', count: { $sum: 1 } } },
\* { $sort: { count: -1 } }]): one { _id, count } per class that has
\* documents, the larger counts first.
GroupCount(c) == Cardinality({d \in docs : d.apClass = c})
Grouped == {[id |-> c, count |-> GroupCount(c)] : c \in {d.apClass : d \in docs}}

RECURSIVE SortByCount(_)
SortByCount(G) ==
    IF G = {} THEN <<>>
    ELSE LET g == CHOOSE x \in G : \A y \in G : x.count >= y.count
         IN <<g>> \o SortByCount(G \ {g})

Aggregate == SortByCount(Grouped)

\* The route calls getCacheStats; countDocuments is issued.
StatsStart ==
    /\ stats.pc = "idle" /\ JsIdle
    /\ stats' = [NoStats EXCEPT !.pc = "count"]
    /\ UNCHANGED exceptStats

\* countDocuments has answered; aggregate is issued.
TotalAtCount == CountDocuments

StatsCounted ==
    /\ stats.pc = "count" /\ JsIdle
    /\ stats' = [stats EXCEPT !.pc = "aggregate", !.total = TotalAtCount]
    /\ UNCHANGED exceptStats

\* aggregate has answered: { total, byClass } is the result.
StatsAggregated ==
    /\ stats.pc = "aggregate" /\ JsIdle
    /\ stats' = [stats EXCEPT !.pc = "done", !.byClass = Aggregate]
    /\ UNCHANGED exceptStats

\* res.json(stats)
StatsRespond ==
    /\ stats.pc = "done"
    /\ stats' = NoStats
    /\ UNCHANGED exceptStats

\* The server with a statistics call next to its requests.
NextStats ==
    \/ Next
    \/ StatsStart
    \/ StatsCounted
    \/ StatsAggregated
    \/ StatsRespond

SpecStats == Init /\ [][NextStats]_vars

\* ========================================================== verification
\* routes/api/auth.js: register, verify-email and login with the fields of
\* the User document they read and write.  Each action is the completion
\* of the database or bcrypt call a request awaits, with the code that
\* follows it up to the next await.
MemberIds == 1..NMembers
VerifyCalls == 1..NVerifyCalls

\* 24 * 60 * 60 * 1000
EMAIL_TOKEN_TTL == 86400000

\* The instants, in ms, at which something happens.
VerifyInstants == {0, 86399999, 86400000}

NullToken == <<"null", 0>>

\* generateRandomToken(): random bytes, taken as different for every
\* registration; Token(0) is a token no registration produced.
Token(u) == <<"token", u>>

\* bcrypt.hash / bcrypt.compare
Hash(p) == <<"bcrypt", p>>
Compare(p, h) == h = Hash(p)

\* The password the owner of account u chose, and a wrong one.
PasswordOf(u) == 1
WrongPassword == 2

NoMember == [exists |-> FALSE, verified |-> FALSE, emailToken |-> NullToken,
             emailTokenExpires |-> 0, password |-> Hash(0)]

IdleVerify == [pc |-> "idle", token |-> NullToken, user |-> 0, foundAt |-> 0,
               status |-> 0]
IdleLogin == [pc |-> "idle", email |-> 0, password |-> 0, user |-> NoMember,
              status |-> 0]

\* Time passes up to the next instant.
ClockTick ==
    /\ \E t \in VerifyInstants :
           /\ t > clock
           /\ \A other \in VerifyInstants : other > clock => other >= t
           /\ clock' = t
    /\ UNCHANGED <<members, vcalls, lcall, verifiedWith>>
    /\ UNCHANGED exceptVerify

\* POST /api/auth/register for an email not yet registered: the user is
\* saved unverified with a fresh emailToken that lasts 24 hours.
RegisterMember(u) ==
    /\ ~members[u].exists
    /\ members' = [members EXCEPT ![u] =
                      [exists |-> TRUE, verified |-> FALSE,
                       emailToken |-> Token(u),
                       emailTokenExpires |-> clock + EMAIL_TOKEN_TTL,
                       password |-> Hash(PasswordOf(u))]]
    /\ UNCHANGED <<clock, vcalls, lcall, verifiedWith>>
    /\ UNCHANGED exceptVerify

\* GET /api/auth/verify-email?token=tok arrives: without a token the
\* answer is 400, otherwise User.findOne is issued.
VerifyStart(s, tok) ==
    /\ vcalls[s].pc = "idle"
    /\ \A other \in VerifyCalls : other < s => vcalls[other].pc # "idle"
    /\ vcalls' = [vcalls EXCEPT ![s] =
                     IF tok = NullToken
                     THEN [IdleVerify EXCEPT !.pc = "done", !.status = 400]
                     ELSE [IdleVerify EXCEPT !.pc = "find", !.token = tok]]
    /\ UNCHANGED <<members, clock, lcall, verifiedWith>>
    /\ UNCHANGED exceptVerify

\* User.findOne({ emailToken: token, emailTokenExpires: { $gt: Date.now() } })
FindByToken(tok) ==
    {u \in MemberIds : /\ members[u].exists
                       /\ members[u].emailToken = tok
                       /\ members[u].emailTokenExpires > clock}

\* findOne has answered: no user gives 400; otherwise verified,
\* emailToken and emailTokenExpires are set on the loaded document and
\* user.save() is issued.
VerifyFound(s) ==
    /\ vcalls[s].pc = "find"
    /\ vcalls' = [vcalls EXCEPT ![s] =
                     IF FindByToken(vcalls[s].token) = {}
                     THEN [@ EXCEPT !.pc = "done", !.status = 400]
                     ELSE [@ EXCEPT !.pc = "save", !.foundAt = clock,
                                    !.user = CHOOSE u \in FindByToken(vcalls[s].token) : TRUE]]
    /\ UNCHANGED <<members, clock, lcall, verifiedWith>>
    /\ UNCHANGED exceptVerify

\* user.save() writes the three changed fields ($set), whatever the stored
\* document holds by now; the answer is 200 with a JWT.
VerifySaved(s) ==
    /\ vcalls[s].pc = "save"
    /\ members[vcalls[s].user].exists
    /\ members' = [members EXCEPT ![vcalls[s].user] =
                      [@ EXCEPT !.verified = TRUE, !.emailToken = NullToken,
                                !.emailTokenExpires = 0]]
    /\ vcalls' = [vcalls EXCEPT ![s] = [@ EXCEPT !.pc = "done", !.status = 200]]
    /\ verifiedWith' = [verifiedWith EXCEPT ![vcalls[s].user] =
                           IF @ < 2 THEN @ + 1 ELSE @]
    /\ UNCHANGED <<clock, lcall>>
    /\ UNCHANGED exceptVerify

\* user.save() rejects (the database is unreachable): 500, nothing written.
VerifySaveError(s) ==
    /\ vcalls[s].pc = "save"
    /\ vcalls' = [vcalls EXCEPT ![s] = [@ EXCEPT !.pc = "done", !.status = 500]]
    /\ UNCHANGED <<members, clock, lcall, verifiedWith>>
    /\ UNCHANGED exceptVerify

\* The response of verify-email has been written.
VerifyAnswer(s) ==
    /\ vcalls[s].pc = "done"
    /\ vcalls' = [vcalls EXCEPT ![s] = IdleVerify]
    /\ UNCHANGED <<members, clock, lcall, verifiedWith>>
    /\ UNCHANGED exceptVerify

\* POST /api/auth/login with the email of account u and a password:
\* User.findOne({ email }) is issued.
LoginStart(u, p) ==
    /\ lcall.pc = "idle"
    /\ lcall' = [IdleLogin EXCEPT !.pc = "find", !.email = u, !.password = p]
    /\ UNCHANGED <<members, clock, vcalls, verifiedWith>>
    /\ UNCHANGED exceptVerify

\* findOne has answered: no user gives 401, otherwise bcrypt.compare runs
\* on the loaded document.
LoginFound ==
    /\ lcall.pc = "find"
    /\ lcall' = IF members[lcall.email].exists
                THEN [lcall EXCEPT !.pc = "compare", !.user = members[lcall.email]]
                ELSE [lcall EXCEPT !.pc = "done", !.status = 401]
    /\ UNCHANGED <<members, clock, vcalls, verifiedWith>>
    /\ UNCHANGED exceptVerify

\* The status login answers with once bcrypt.compare has answered.
LoginStatus(c) ==
    IF ~Compare(c.password, c.user.password) THEN 401
    ELSE IF ~c.user.verified THEN 403
    ELSE 200

LoginCompared ==
    /\ lcall.pc = "compare"
    /\ lcall' = [lcall EXCEPT !.pc = "done", !.status = LoginStatus(lcall)]
    /\ UNCHANGED <<members, clock, vcalls, verifiedWith>>
    /\ UNCHANGED exceptVerify

\* The response of login has been written.
LoginAnswer ==
    /\ lcall.pc = "done"
    /\ lcall' = IdleLogin
    /\ UNCHANGED <<members, clock, vcalls, verifiedWith>>
    /\ UNCHANGED exceptVerify

NextVerify ==
    \/ ClockTick
    \/ \E u \in MemberIds : RegisterMember(u)
    \/ \E s \in VerifyCalls, tok \in {NullToken} \cup {Token(u) : u \in 0..NMembers} :
           VerifyStart(s, tok)
    \/ \E s \in VerifyCalls : VerifyFound(s)
    \/ \E s \in VerifyCalls : VerifySaved(s)
    \/ \E s \in VerifyCalls : VerifySaveError(s)
    \/ \E s \in VerifyCalls : VerifyAnswer(s)
    \/ \E u \in MemberIds : \E p \in {PasswordOf(u), WrongPassword} : LoginStart(u, p)
    \/ LoginFound
    \/ LoginCompared
    \/ LoginAnswer

SpecVerify == Init /\ [][NextVerify]_vars

\* ============================================================= authFetch
\* public/js auth utilities (src/unnamed/part_007): authFetch wraps fetch()
\* for the routes that need the JWT.  An action is the call, the settling
\* of a fetch() promise, or the end of a backoff timer.
MAX_RETRIES == 3

\* What a fetch() promise settles with: a Response with an HTTP status, or
\* a rejection (TypeError of a network failure).
Statuses == {200, 401, 500}
Response(st) == <<"response", st>>
NetworkError == <<"error", 0>>
NoResult == <<"none", 0>>

Undefined == <<"undefined", 0>>

\* The routes the page calls through authFetch.
AuthUrls == {"/api/auth/record-attempt", "/api/auth/logout",
             "/api/auth/current-user"}

IdleAuthCall == [pc |-> "idle", url |-> "", attempt |-> 0,
                 authorization |-> FALSE, result |-> NoResult]

\* authFetch(url, options) is called: the headers are built (Authorization
\* when a token is stored) and the first fetch() is issued.
AuthFetchStart(url) ==
    /\ authCall.pc = "idle"
    /\ ended < MaxAuthCalls
    /\ authCall' = [IdleAuthCall EXCEPT !.pc = "fetch", !.url = url,
                                        !.authorization = authToken]
    /\ outcomes' = <<>>
    /\ UNCHANGED <<authToken, pathname, ended>>
    /\ UNCHANGED exceptAuthFetch

\* fetch() resolved with a response: it is returned whatever its status;
\* a 401 first clears the stored token and sends the page to the login.
FetchResolved(st) ==
    /\ authCall.pc = "fetch"
    /\ outcomes' = Append(outcomes, Response(st))
    /\ authToken' = IF st = 401 THEN FALSE ELSE authToken
    /\ pathname' = IF st = 401 THEN "/auth/login.html" ELSE pathname
    /\ authCall' = [authCall EXCEPT !.pc = "returned", !.result = Response(st)]
    /\ UNCHANGED ended
    /\ UNCHANGED exceptAuthFetch

\* attempt >= MAX_RETRIES
ExhaustedLate(attempt) == attempt > MAX_RETRIES
Exhausted(attempt) == attempt >= MAX_RETRIES

\* fetch() rejected: attempt is counted; the error is rethrown when the
\* retries are used up, otherwise the backoff timer (300 ms * attempt) is
\* set.
FetchRejected ==
    /\ authCall.pc = "fetch"
    /\ outcomes' = Append(outcomes, NetworkError)
    /\ authCall' = IF Exhausted(authCall.attempt + 1)
                   THEN [authCall EXCEPT !.pc = "thrown",
                                         !.attempt = authCall.attempt + 1,
                                         !.result = NetworkError]
                   ELSE [authCall EXCEPT !.pc = "backoff",
                                         !.attempt = authCall.attempt + 1]
    /\ UNCHANGED <<authToken, pathname, ended>>
    /\ UNCHANGED exceptAuthFetch

\* The backoff timer fires: while the loop test holds fetch() is issued
\* again with the headers built at the call; a loop that ends falls off
\* the function, which returns undefined.
BackoffDone ==
    /\ authCall.pc = "backoff"
    /\ authCall' = IF authCall.attempt < MAX_RETRIES
                   THEN [authCall EXCEPT !.pc = "fetch"]
                   ELSE [authCall EXCEPT !.pc = "returned", !.result = Undefined]
    /\ UNCHANGED <<authToken, pathname, outcomes, ended>>
    /\ UNCHANGED exceptAuthFetch

\* The caller has the response or the error.
AuthFetchEnded ==
    /\ authCall.pc \in {"returned", "thrown"}
    /\ authCall' = IdleAuthCall
    /\ ended' = ended + 1
    /\ UNCHANGED <<authToken, pathname, outcomes>>
    /\ UNCHANGED exceptAuthFetch

\* login() stores a token again; the user leaves the login page.
LoggedIn ==
    /\ authCall.pc = "idle"
    /\ ~authToken
    /\ authToken' = TRUE
    /\ pathname' = "/index.html"
    /\ UNCHANGED <<authCall, outcomes, ended>>
    /\ UNCHANGED exceptAuthFetch

NextAuthFetch ==
    \/ \E url \in AuthUrls : AuthFetchStart(url)
    \/ \E st \in Statuses : FetchResolved(st)
    \/ FetchRejected
    \/ BackoffDone
    \/ AuthFetchEnded
    \/ LoggedIn

SpecAuthFetch == Init /\ [][NextAuthFetch]_vars

\* =========================================================== bug reports
\* routes/api/bug-report (src/unnamed/part_014): every report is added to
\* the JSON array kept in data/bug-reports.json.  An action is the arrival
\* of a request or the completion of the fs call it awaits.
Submissions == 1..NSubmissions

IdleSubmission == [pc |-> "idle", report |-> 0, records |-> <<>>, status |-> 0]

\* JSON.stringify(reports, null, 2) and JSON.parse(content || '[]'): the
\* file holds the text of the array; parsing the text written gives the
\* array back, an empty file gives [].
Stringify(reports) == <<"json", reports>>
EmptyFile == <<"empty", <<>>>>
Parse(content) == IF content = EmptyFile THEN <<>> ELSE content[2]

\* POST /api/bug-report with a body reportSchema accepts: the report is
\* built and readReports starts with ensureReportStorage, which issues
\* writeFile('[]') when existsSync finds no file.
SubmitReport(s) ==
    /\ submissions[s].pc = "idle"
    /\ \A other \in Submissions : other < s => submissions[other].pc # "idle"
    /\ nextReport <= MaxReports
    /\ submissions' = [submissions EXCEPT ![s] =
                          [IdleSubmission EXCEPT
                              !.pc = IF reportsFile.exists THEN "read" ELSE "create",
                              !.report = nextReport]]
    /\ nextReport' = nextReport + 1
    /\ UNCHANGED <<reportsFile, acknowledged>>
    /\ UNCHANGED exceptReports

\* reportSchema.parse throws: 400, nothing is read or written.
SubmitInvalid(s) ==
    /\ submissions[s].pc = "idle"
    /\ \A other \in Submissions : other < s => submissions[other].pc # "idle"
    /\ submissions' = [submissions EXCEPT ![s] =
                          [IdleSubmission EXCEPT !.pc = "done", !.status = 400]]
    /\ UNCHANGED <<reportsFile, nextReport, acknowledged>>
    /\ UNCHANGED exceptReports

\* fs.writeFile(REPORTS_FILE, '[]') of ensureReportStorage has completed;
\* readFile is issued.
StorageCreated(s) ==
    /\ submissions[s].pc = "create"
    /\ reportsFile' = [exists |-> TRUE, reports |-> Parse(Stringify(<<>>))]
    /\ submissions' = [submissions EXCEPT ![s].pc = "read"]
    /\ UNCHANGED <<nextReport, acknowledged>>
    /\ UNCHANGED exceptReports

\* fs.readFile has completed: records.unshift(report), and writeReports
\* issues writeFile with the whole array.
ReportsRead(s) ==
    /\ submissions[s].pc = "read"
    /\ submissions' = [submissions EXCEPT ![s] =
                          [@ EXCEPT !.pc = "write",
                                    !.records = <<submissions[s].report>>
                                                   \o reportsFile.reports]]
    /\ UNCHANGED <<reportsFile, nextReport, acknowledged>>
    /\ UNCHANGED exceptReports

\* fs.writeFile of writeReports has completed: the file holds the array
\* this request built; the answer is 201 with the id.
ReportsWritten(s) ==
    /\ submissions[s].pc = "write"
    /\ reportsFile' = [exists |-> TRUE,
                       reports |-> Parse(Stringify(submissions[s].records))]
    /\ submissions' = [submissions EXCEPT ![s] =
                          [@ EXCEPT !.pc = "done", !.status = 201]]
    /\ acknowledged' = acknowledged \cup {submissions[s].report}
    /\ UNCHANGED nextReport
    /\ UNCHANGED exceptReports

\* An fs call rejects (disk full, no permission): the catch answers 400.
ReportFailed(s) ==
    /\ submissions[s].pc \in {"create", "read", "write"}
    /\ submissions' = [submissions EXCEPT ![s] =
                          [@ EXCEPT !.pc = "done", !.status = 400]]
    /\ UNCHANGED <<reportsFile, nextReport, acknowledged>>
    /\ UNCHANGED exceptReports

\* The response has been written.
ReportAnswered(s) ==
    /\ submissions[s].pc = "done"
    /\ submissions' = [submissions EXCEPT ![s] = IdleSubmission]
    /\ UNCHANGED <<reportsFile, nextReport, acknowledged>>
    /\ UNCHANGED exceptReports

NextReports ==
    \/ \E s \in Submissions : SubmitReport(s)
    \/ \E s \in Submissions : SubmitInvalid(s)
    \/ \E s \in Submissions : StorageCreated(s)
    \/ \E s \in Submissions : ReportsRead(s)
    \/ \E s \in Submissions : ReportsWritten(s)
    \/ \E s \in Submissions : ReportFailed(s)
    \/ \E s \in Submissions : ReportAnswered(s)

SpecReports == Init /\ [][NextReports]_vars

\* ================================================================ claims
\* A generation that writes the cache is in flight for key k.
WriterInFlight(k) ==
    \E t \in Tasks : /\ key[t] = k
                     /\ kind[t] \in {"fetch", "prime", "refresh"}
                     /\ pc[t] \in {"gen", "save", "upsert", "insert"}

\* Slot t is about to hand back a successful answer of a fetch or primeCache.
Answering(t) ==
    /\ pc[t] = "respond"
    /\ kind[t] \in {"fetch", "prime"}
    /\ res[t].status = "ok"

\* C1 (as claimed): the question id handed back by a successful fetch or
\* primeCache names an object of the blob store whose content is the
\* question handed back.
C1_ReturnedIdIsBlob ==
    \A t \in Tasks :
        Answering(t) =>
            \E b \in blob : /\ b.id = res[t].questionId
                            /\ BlobAnswer(b) = res[t].answer

C3_NextFetchSameId ==
    [][\A t \in Tasks :
          (pc[t] = "find" /\ pc'[t] # "find" /\ lastCold[key[t]] # NoId)
          => /\ pc'[t] = "respond"
             /\ res'[t].cached = "true"
             /\ res'[t].questionId = lastCold[key[t]]]_vars

\* C4: a non-forced fetch that follows a cache hit of the same key, no cache
\* write having completed in between, is a cache hit with the same id and
\* the same content.
C4_ConsecutiveHitsAgree ==
    [][\A t \in Tasks :
          (pc[t] = "find" /\ pc'[t] # "find" /\ lastHit[key[t]] # NoRes)
          => /\ pc'[t] = "respond"
             /\ res'[t].cached = "true"
             /\ res'[t].questionId = lastHit[key[t]].questionId
             /\ res'[t].answer = lastHit[key[t]].answer]_vars

C4_Witness ==
    \E t \in Tasks :
        /\ pc[t] = "respond" /\ kind[t] = "fetch" /\ res[t].cached = "true"
        /\ lastHit[key[t]] # NoRes
        /\ res[t].questionId = lastHit[key[t]].questionId

\* C5: a fetch answered from the cache has called neither the generator nor
\* the blob store, whether or not a refresh of the key is in flight, and
\* the refresh it queued has not started when the answer is handed back.
C5_HitDoesNotWait ==
    \A t \in Tasks :
        (pc[t] = "respond" /\ kind[t] = "fetch" /\ res[t].cached = "true")
        => /\ gen[t] = 0
           /\ saved[t] = "no"
           /\ s3id[t] = NoId
           /\ scheduled[key[t]] >= 1

C5_Witness ==
    \E t, u \in Tasks :
        /\ pc[t] = "respond" /\ kind[t] = "fetch" /\ res[t].cached = "true"
        /\ kind[u] = "refresh" /\ key[u] = key[t]
        /\ pc[u] \in {"gen", "save", "upsert"}

C7_ColdGenFailure ==
    [][\A t \in Tasks :
          (kind[t] = "fetch" /\ pc[t] = "gen" /\ pc'[t] \notin {"gen", "save"})
          => /\ pc'[t] = "respond"
             /\ res'[t].status = "error"
             /\ res'[t].error = "GenerationError"
             /\ docs' = docs]_vars

C7_Witness ==
    \E t \in Tasks :
        /\ kind[t] = "fetch" /\ pc[t] = "respond"
        /\ res[t].error = "GenerationError"
        /\ Matching(key[t]) = {}

C9_LastWriterWins ==
    /\ \A d \in docs : d.question = d.correctAnswer /\ d.question = d.explanation
    /\ \A k \in Keys :
          (lastWrite[k] # 0 /\ ~ WriterInFlight(k))
          => /\ Matching(k) # {}
             /\ HitAnswer(FindOne(k)) = MkQuestion(lastWrite[k])

\* C10 (as claimed): the cache holds at most one entry per (apClass, unit).
C10_AtMostOneEntryPerKey ==
    \A k \in Keys : Cardinality(Matching(k)) <= 1

\* Background refreshes of key k that have started and not yet ended.
RefreshesInFlight(k) ==
    {t \in Tasks : /\ kind[t] = "refresh" /\ key[t] = k
                   /\ pc[t] \in {"gen", "save", "upsert", "insert"}}

\* C11 (as claimed): at most one background refresh per key is in flight
\* at any time.
C11_AtMostOneRefreshInFlight ==
    \A k \in Keys : Cardinality(RefreshesInFlight(k)) <= 1

\* C11 (amended): every cache hit queues one more background refresh of
\* its key, whether or not a refresh of the key is already queued or in
\* flight.
C11_HitAlwaysSchedules ==
    [][\A t \in Tasks :
          (pc[t] = "find" /\ pc'[t] = "respond")
          => scheduled'[key[t]] = scheduled[key[t]] + 1]_vars

C11_Witness ==
    \E t, u \in Tasks :
        /\ t # u /\ key[t] = key[u]
        /\ t \in RefreshesInFlight(key[t])
        /\ u \in RefreshesInFlight(key[u])

\* C12 (as claimed): between two clears of the cache, at most one fetch of
\* a key answers from the synchronous generation path (cached = false).
C12_OneColdAnswerPerKey ==
    \A t \in Tasks :
        (pc[t] = "respond" /\ kind[t] = "fetch" /\ res[t].cached = "false")
        => ~ coldServed[key[t]]

\* C12 (amended): a fetch that looks the cache up after a fetch of the same
\* key has answered from the synchronous path, the cache not having been
\* cleared in between, is served from the cache.
C12_FetchAfterColdAnswerHits ==
    [][\A t \in Tasks :
          (pc[t] = "find" /\ pc'[t] # "find" /\ coldServed[key[t]])
          => /\ pc'[t] = "respond"
             /\ res'[t].status = "ok"
             /\ res'[t].cached = "true"]_vars

C12_Witness ==
    \E t \in Tasks :
        /\ pc[t] = "respond" /\ kind[t] = "fetch" /\ res[t].cached = "true"
        /\ coldServed[key[t]]

\* C13 (as claimed): an answer of fetch or primeCache that carries the
\* question id of the answer handed back before it for the key carries the
\* same question.
C13_IdDenotesOneQuestion ==
    \A t \in Tasks :
        (Answering(t) /\ res[t].questionId = lastServed[key[t]].questionId)
        => res[t].answer = lastServed[key[t]].answer

\* C14: a forced fetch (skipCache) never looks the cache up; whatever the
\* cache holds it calls the generator, and what it hands back is the
\* question it generated, which no cache entry holds, or the generation
\* error.
C14_ForcedAlwaysGenerates ==
    \A t \in Tasks :
        kind[t] = "force"
        => /\ pc[t] # "find"
           /\ pc[t] = "respond" =>
                IF res[t].status = "ok"
                THEN /\ gen[t] # 0
                     /\ res[t].answer = MkQuestion(gen[t])
                     /\ res[t].cached = "undef"
                     /\ \A d \in docs : HitAnswer(d) # res[t].answer
                ELSE res[t].error = "GenerationError"

C14_Witness ==
    \E t \in Tasks :
        /\ kind[t] = "force" /\ pc[t] = "respond" /\ res[t].status = "ok"
        /\ Matching(key[t]) # {}

\* C15 (as claimed): the first fetch of a key started after the cache was
\* cleared misses and goes to the generator.
C15_FetchAfterClearMisses ==
    [][\A t \in Tasks :
          (pc[t] = "find" /\ pc'[t] # "find" /\ cleared[key[t]] = FirstFetch(t))
          => pc'[t] = "gen"]_vars

\* C15 (amended): clearCache empties the collection; the first fetch of a
\* key started afterwards misses and goes to the generator provided no
\* generation has written the key since the clear; clearing an empty cache
\* changes neither the collection nor any call in flight.
C15_ClearThenFetch ==
    [][/\ \A t \in Tasks :
            (/\ pc[t] = "find" /\ pc'[t] # "find"
             /\ cleared[key[t]] = FirstFetch(t) /\ lastWrite[key[t]] = 0)
            => pc'[t] = "gen"
       /\ ClearCache => /\ docs' = {}
                        /\ docs = {} => UNCHANGED <<docs, blob, pc, kind, key,
                                                    gen, res, scheduled>>]_vars

C15_Witness ==
    \E k \in Keys :
        /\ Matching(k) = {}
        /\ RefreshesInFlight(k) # {}
        /\ \E u \in Tasks : /\ kind[u] = "fetch" /\ pc[u] = "find"
                             /\ key[u] = k /\ cleared[k] = FirstFetch(u)

C17_GeneratorCallEnds ==
    \A t \in Tasks : (pc[t] = "gen") ~> (pc[t] # "gen")

\* The prefetch cache key was made for the selection now in the selects.
ForCurrentSelection(e) ==
    /\ e.cls = classSelect
    /\ IF unitSelect = "__custom__" THEN e.unit # "__custom__" /\ IsCustom(e.unit)
       ELSE e.unit = unitSelect

\* C18 (as claimed): once a selection change has aborted a prefetch and
\* cleared the prefetch cache, the prefetch cache never holds a question
\* prefetched for another selection than the current one.
C18_NoStalePrefetchStored ==
    changeAborted => \A e \in cache : ForCurrentSelection(e)

C20_SaveFailureAbsorbed ==
    [][\A t \in Tasks :
          (pc[t] = "save" /\ saved'[t] = "failed")
          => /\ s3id'[t] = NoId
             /\ blob' = blob
             /\ gen'[t] = gen[t]
             /\ IF kind[t] = "force"
                THEN /\ pc'[t] = "respond"
                     /\ res'[t] = OkRes("undef", NoId, MkQuestion(gen[t]))
                ELSE pc'[t] = "upsert"]_vars

C20_Witness ==
    \E t \in Tasks :
        /\ kind[t] = "force" /\ pc[t] = "respond" /\ saved[t] = "failed"
        /\ res[t].status = "ok" /\ res[t].questionId = NoId
        /\ res[t].answer = MkQuestion(gen[t]) /\ gen[t] # 0

\* The attempt records of user u for the (apClass, unit) of body b.
AttemptsFor(u, b) ==
    {i \in 1..Len(users[u].questionHistory) :
        /\ users[u].questionHistory[i].apClass = b.apClass
        /\ users[u].questionHistory[i].unit = b.unit}

CorrectFor(u, b) ==
    {i \in AttemptsFor(u, b) : users[u].questionHistory[i].wasCorrect}

\* Slot s is answering a record-attempt request with success.
Recorded(s) ==
    /\ calls[s].pc = "done"
    /\ calls[s].route = "record"
    /\ calls[s].reply.status = 200

\* C21 (as claimed): with one request at a time, the n-th successful
\* record-attempt of a user for one (apClass, unit), k of them correct,
\* answers totalAttempts = n and mastery = round(100 * k / n).
C21_ReturnsCountAndMastery ==
    \A s \in Calls :
        Recorded(s) =>
            LET n == Cardinality(AttemptsFor(calls[s].userId, calls[s].body))
                k == Cardinality(CorrectFor(calls[s].userId, calls[s].body))
            IN /\ calls[s].reply.totalAttempts = n
               /\ calls[s].reply.mastery = Mastery(k, n)

\* The body of slot s lacks a field record-attempt requires.
MissingField(b) == \E f \in RequiredFields : b[f] = NoBody[f]

\* Slot s gets its answer in this step.
Answers(s) == calls[s].pc \notin {"idle", "done"} /\ calls'[s].pc = "done"

C23_AttemptsNamePersistedQuestions ==
    \A u \in UserIds :
        \A i \in 1..Len(users[u].questionHistory) :
            \E b \in blob : b.id = users[u].questionHistory[i].questionId

\* Slot s ends a record-attempt request with success in this step.
Records(s) ==
    /\ Answers(s)
    /\ calls[s].route = "record"
    /\ calls'[s].reply.status = 200

SameKey(e, b) == e.apClass = b.apClass /\ e.unit = b.unit

\* C24: a successful record-attempt appends exactly one record, the one of
\* the request, to the history of its user; the earlier records, the
\* progress entries of other (apClass, unit), the user's bookmarks and all
\* other users stay as they were.  No other step changes a history.
C24_HistoryIsAppendOnly ==
    [][/\ \A s \in Calls :
            Records(s) =>
                LET u == calls[s].userId
                    b == calls[s].body
                IN /\ users'[u].questionHistory =
                          Append(users[u].questionHistory, AttemptRecord(b))
                   /\ \A v \in UserIds \ {u} : users'[v] = users[v]
                   /\ users'[u].bookmarkedQuestions = users[u].bookmarkedQuestions
                   /\ Len(users'[u].progress) >= Len(users[u].progress)
                   /\ \A i \in 1..Len(users'[u].progress) :
                          ~SameKey(users'[u].progress[i], b) =>
                              /\ i <= Len(users[u].progress)
                              /\ users'[u].progress[i] = users[u].progress[i]
       /\ (\A s \in Calls : ~Records(s)) =>
              \A u \in UserIds :
                  users'[u].exists =>
                      users'[u].questionHistory = users[u].questionHistory]_vars

\* A second attempt has been recorded for a user who has a progress entry
\* of another (apClass, unit).
C24_Witness ==
    \E s \in Calls :
        /\ calls[s].pc = "done"
        /\ calls[s].route = "record"
        /\ calls[s].reply.status = 200
        /\ Len(users[calls[s].userId].questionHistory) = 2
        /\ \E i \in 1..Len(users[calls[s].userId].progress) :
               ~SameKey(users[calls[s].userId].progress[i], calls[s].body)

\* The positions of the call whose get succeeded, up to position i.
GotUpTo(i) == {j \in 1..i : getMany.results[j].state = "got"}

\* C25: getQuestionsFromS3 does not throw because of an id, and what it
\* returns are the questions of the ids whose get succeeded, each once per
\* request of its id and in the order of the requested ids; the ids whose
\* get failed are left out.
C25_GetManyReturnsTheFound ==
    /\ getMany.pc # "thrown"
    /\ getMany.pc = "returned" =>
           /\ Len(getMany.returned) = Cardinality(GotUpTo(Len(getMany.ids)))
           /\ \A i \in GotUpTo(Len(getMany.ids)) :
                  /\ getMany.returned[Cardinality(GotUpTo(i))] =
                         getMany.results[i].body
                  /\ \E o \in getMany.objects :
                         /\ o.id = getMany.ids[i]
                         /\ o.body = getMany.results[i].body

\* A call has returned one question of two ids asked for, the first get
\* having failed.
C25_Witness ==
    /\ getMany.pc = "returned"
    /\ Len(getMany.ids) = 2
    /\ getMany.results[1].state = "null"
    /\ Len(getMany.returned) = 1

\* The humanities and social-science subjects among Subjects.
Humanities == {"AP US History", "AP US Government and Politics",
               "AP Macroeconomics", "AP Psychology", "AP Human Geography",
               "AP English Literature"}

\* C26 (as claimed): a humanities or social-science subject is generated
\* with gpt-4.1-mini and every other subject with gpt-5-mini.
C26_OnlyHumanitiesGetFirstProfile ==
    \A i \in 1..Len(picks) :
        picks[i].model = IF picks[i].className \in Humanities
                         THEN "gpt-4.1-mini"
                         ELSE "gpt-5-mini"

\* C26 (amended): the model depends on the class name only; it is
\* gpt-4.1-mini for the humanities and social-science subjects and for AP
\* Computer Science Principles, and gpt-5-mini for every other subject,
\* AP Computer Science A and a missing class name included.
C26_ProfileByKeyword ==
    /\ \A i \in 1..Len(picks) :
           picks[i].model =
               IF picks[i].className \in
                      Humanities \cup {"AP Computer Science Principles"}
               THEN "gpt-4.1-mini"
               ELSE "gpt-5-mini"
    /\ \A i, j \in 1..Len(picks) :
           picks[i].className = picks[j].className =>
               picks[i].model = picks[j].model

\* The model has been asked twice for AP Computer Science Principles.
C26_Witness ==
    /\ Len(picks) = 2
    /\ picks[1].className = "AP Computer Science Principles"
    /\ picks[2].className = "AP Computer Science Principles"

\* C27 (as claimed): at no moment have more than 15 question requests of
\* one IP been let through within the minute that ends at that moment.
C27_AtMostLimitInAnyMinute ==
    \A ip \in ClientIps : Len(allowedAt[ip]) <= OPENAI_RATE_LIMIT

\* C28 (as claimed): a request without a valid token is answered 401, and
\* no handler behind verifyToken runs for a user who is not verified.
C28_NoHandlerForUnverifiedUser ==
    \A s \in Calls :
        /\ (calls[s].pc = "done" /\ calls[s].token[1] # "jwt") =>
               calls[s].reply.status = 401 /\ ~calls[s].handler
        /\ (calls[s].handler /\ users[calls[s].userId].exists) =>
               users[calls[s].userId].verified

\* C29 (as claimed): no user's bookmark list holds the same id twice, and
\* a bookmark request answered with success says bookmarked = true exactly
\* when the id is in the list afterwards.
C29_BookmarksAreASet ==
    /\ \A u \in UserIds :
           \A i, j \in 1..Len(users[u].bookmarkedQuestions) :
               users[u].bookmarkedQuestions[i] = users[u].bookmarkedQuestions[j]
                   => i = j
    /\ \A s \in Calls :
           (calls[s].pc = "done" /\ calls[s].route = "bookmark"
                /\ calls[s].reply.status = 200) =>
               calls[s].reply.bookmarked =
                   (IndexOf(users[calls[s].userId].bookmarkedQuestions,
                            calls[s].body.questionId) > 0)

\* C30 (as claimed): every stored progress entry counts the attempt
\* records of its user for its (apClass, unit): totalAttempts is their
\* number and correctAttempts the number of those with wasCorrect.
C30_ProgressCountsHistory ==
    \A u \in UserIds :
        \A i \in 1..Len(users[u].progress) :
            LET e == users[u].progress[i]
            IN /\ e.totalAttempts = Cardinality(AttemptsFor(u, e))
               /\ e.correctAttempts = Cardinality(CorrectFor(u, e))

\* ------------------------------------------------------------------ C31
\* The slot that takes the step.
Stepping(t) == pc'[t] # pc[t]

\* C31: a forced fetch (skipCache) leaves the cache alone: none of its
\* steps, from the start of the call to its response, adds, replaces or
\* removes a document of the collection or queues a background refresh.
C31_ForcedFetchLeavesCache ==
    [][\A t \in Tasks :
          Stepping(t) /\ (kind[t] = "force" \/ kind'[t] = "force")
          => docs' = docs /\ scheduled' = scheduled]_vars

C31_Witness ==
    \E t \in Tasks :
        /\ kind[t] = "force" /\ pc[t] = "respond"
        /\ saved[t] = "ok" /\ s3id[t] # NoId
        /\ docs # {} /\ \A k \in Keys : scheduled[k] = 0

\* ------------------------------------------------------------------ C32
\* The requests handleQuestionRequest sends in this step.
Sent == requests' \ requests

\* C32: a question request is sent with skipCache=false (useCache) only
\* while no question has been shown for its class/unit selection since the
\* selection last changed; once one has been shown, every request for the
\* selection is sent with skipCache=true; every prefetch is sent with
\* skipCache=true.
C32_CacheAskedOnlyBeforeFirstShown ==
    [][/\ \A r \in Sent :
             (r.status = "sent" /\ r.useCache)
             => CacheKey(r.cls, r.sel) \notin shownFor
       /\ \A p \in prefetch' : p.skipCache]_vars

\* ------------------------------------------------------------------ C33
\* C33: a prefetched question is served at most once: no response object
\* of a prefetch reaches processQuestionData for two question requests.
C33_PrefetchedServedOnce ==
    \A n \in DOMAIN displayed : displayed[n] <= 1

C33_Witness ==
    /\ \E n \in DOMAIN displayed : displayed[n] = 1
    /\ shown = "prefetched"
    /\ \A e \in cacheData : e.key # lastCacheKey

\* ------------------------------------------------------------------ C34
\* The sum of the per-subject counts of a statistics result.
RECURSIVE SumCounts(_)
SumCounts(q) == IF q = <<>> THEN 0 ELSE q[1].count + SumCounts(Tail(q))

\* C34: the total of a statistics result equals the sum of its per-subject
\* counts, whatever requests run next to the statistics call.
C34_TotalIsSumOfSubjects ==
    stats.pc = "done" => stats.total = SumCounts(stats.byClass)

\* ------------------------------------------------------------------ C35
\* checkOpenAIRateLimit runs in this step (time stands still while it does).
Checked == now' = now /\ (lastCheck' # lastCheck \/ allowedAt' # allowedAt)

VerifiesNow(s, u) ==
    /\ vcalls[s].pc = "save" /\ vcalls'[s].pc = "done"
    /\ vcalls'[s].status = 200
    /\ vcalls[s].user = u

\* C36: login answers 200 only for a verified user and 403 for an
\* unverified one who gave the right password; the verified flag becomes
\* true only through a verify-email request whose token is the stored one
\* and was unexpired when it was looked up; and no token verifies twice.
C36_LoginOnlyAfterSingleVerification ==
    [][/\ lcall'.pc = "done"
          => /\ lcall'.status = 200 => members'[lcall'.email].verified
             /\ (~lcall'.user.verified /\ lcall'.user.exists
                   /\ lcall'.password = PasswordOf(lcall'.email))
                => lcall'.status = 403
       /\ \A u \in MemberIds :
             (~members[u].verified /\ members'[u].verified)
             => \E s \in VerifyCalls :
                   /\ VerifiesNow(s, u)
                   /\ vcalls[s].token = members[u].emailToken
                   /\ members[u].emailTokenExpires > vcalls[s].foundAt
                   /\ members'[u].emailToken = NullToken
       /\ \A u \in MemberIds : verifiedWith'[u] <= 1]_vars

\* ------------------------------------------------------------------ C37
\* C37: authFetch calls fetch() at most 3 times per call; every fetch()
\* before the last one failed with a network-level error (nothing is
\* retried after a response); the first response received is returned
\* whatever its status; and the error is rethrown after the third failed
\* attempt, not before.
C37_AtMostThreeAttempts ==
    /\ Len(outcomes) <= 3
    /\ \A i \in 1..(Len(outcomes) - 1) : outcomes[i] = NetworkError
    /\ authCall.pc = "returned"
       => /\ outcomes[Len(outcomes)][1] = "response"
          /\ authCall.result = outcomes[Len(outcomes)]
    /\ authCall.pc = "thrown"
       => /\ Len(outcomes) = 3
          /\ outcomes[3] = NetworkError
          /\ authCall.result = NetworkError
    /\ authCall.pc \in {"fetch", "backoff"}
       => \A i \in 1..Len(outcomes) : outcomes[i] = NetworkError

\* The third attempt got a 500 after two network errors.
C37_Witness ==
    /\ authCall.pc = "returned"
    /\ outcomes = <<NetworkError, NetworkError, Response(500)>>

\* ------------------------------------------------------------------ C38
\* The reports the stored file holds.
StoredReports == {reportsFile.reports[i] : i \in 1..Len(reportsFile.reports)}

\* C38: every bug report answered 201 is in the stored reports file from
\* then on, however the submissions interleave.
C38_AcknowledgedReportsAreStored ==
    \A r \in acknowledged : r \in StoredReports
====
